---- MODULE Spec2Model ----
(***************************************************************************)
(* Model of CodeReviewAI: one POST /review request travelling through      *)
(* request validation (src/main.py), the GitHub repository fetcher         *)
(* (src/repo_fetcher.py) and the retrying EdenAI client (src/analyzer.py). *)
(*                                                                         *)
(* Python strings that the code builds by formatting are modelled as       *)
(* sequences of pieces (literal fragments and interpolated values);        *)
(* decoded file text is a sequence of Unicode code points; raw bytes are   *)
(* sequences of integers 0..255.                                           *)
(***************************************************************************)
EXTENDS Integers, Sequences, FiniteSets, TLC

(***************************************************************************)
(* Bounds of the model (not program constants).                            *)
(***************************************************************************)
MaxNodes == 3
MaxTextLen == 3
MaxFetches == 2

(***************************************************************************)
(* Program constants.                                                      *)
(***************************************************************************)
MAX_CONTENT_SIZE == 1024 * 1024
retries == 3
backoff_factor == 2
max_length == 1000
min_length == 1

None == [cls |-> "NoneType"]

(***************************************************************************)
(* Exceptions.  An exception value is a record with its class, its str()   *)
(* (a sequence of pieces) and, where the class has one, a status.          *)
(* ClassStatements gives the direct base classes of each exception class   *)
(* of Python and of the libraries the program uses (json, binascii,        *)
(* pydantic, fastapi, github, requests, httpx, asyncio).  A class of       *)
(* requests whose name httpx or Python also uses is written with its       *)
(* module, as are binascii's classes and httpx.HTTPError.  Bases is every  *)
(* proper base class, as the class's __mro__ lists them.  The table is     *)
(* closed: a class it does not name has no row.                            *)
(***************************************************************************)
ClassStatements ==
       "BaseException"              :> {}
    @@ "BaseExceptionGroup"         :> {"BaseException"}
    @@ "GeneratorExit"              :> {"BaseException"}
    @@ "KeyboardInterrupt"          :> {"BaseException"}
    @@ "SystemExit"                 :> {"BaseException"}
    @@ "CancelledError"             :> {"BaseException"}
    @@ "Exception"                  :> {"BaseException"}
    @@ "ExceptionGroup"             :> {"BaseExceptionGroup", "Exception"}
    @@ "ArithmeticError"            :> {"Exception"}
    @@ "FloatingPointError"         :> {"ArithmeticError"}
    @@ "OverflowError"              :> {"ArithmeticError"}
    @@ "ZeroDivisionError"          :> {"ArithmeticError"}
    @@ "AssertionError"             :> {"Exception"}
    @@ "AttributeError"             :> {"Exception"}
    @@ "BufferError"                :> {"Exception"}
    @@ "EOFError"                   :> {"Exception"}
    @@ "ImportError"                :> {"Exception"}
    @@ "ModuleNotFoundError"        :> {"ImportError"}
    @@ "LookupError"                :> {"Exception"}
    @@ "IndexError"                 :> {"LookupError"}
    @@ "KeyError"                   :> {"LookupError"}
    @@ "MemoryError"                :> {"Exception"}
    @@ "NameError"                  :> {"Exception"}
    @@ "UnboundLocalError"          :> {"NameError"}
    @@ "OSError"                    :> {"Exception"}
    @@ "BlockingIOError"            :> {"OSError"}
    @@ "ChildProcessError"          :> {"OSError"}
    @@ "ConnectionError"            :> {"OSError"}
    @@ "BrokenPipeError"            :> {"ConnectionError"}
    @@ "ConnectionAbortedError"     :> {"ConnectionError"}
    @@ "ConnectionRefusedError"     :> {"ConnectionError"}
    @@ "ConnectionResetError"       :> {"ConnectionError"}
    @@ "FileExistsError"            :> {"OSError"}
    @@ "FileNotFoundError"          :> {"OSError"}
    @@ "InterruptedError"           :> {"OSError"}
    @@ "IsADirectoryError"          :> {"OSError"}
    @@ "NotADirectoryError"         :> {"OSError"}
    @@ "PermissionError"            :> {"OSError"}
    @@ "ProcessLookupError"         :> {"OSError"}
    @@ "TimeoutError"               :> {"OSError"}
    @@ "ReferenceError"             :> {"Exception"}
    @@ "RuntimeError"               :> {"Exception"}
    @@ "NotImplementedError"        :> {"RuntimeError"}
    @@ "RecursionError"             :> {"RuntimeError"}
    @@ "StopAsyncIteration"         :> {"Exception"}
    @@ "StopIteration"              :> {"Exception"}
    @@ "SyntaxError"                :> {"Exception"}
    @@ "IndentationError"           :> {"SyntaxError"}
    @@ "TabError"                   :> {"IndentationError"}
    @@ "SystemError"                :> {"Exception"}
    @@ "TypeError"                  :> {"Exception"}
    @@ "ValueError"                 :> {"Exception"}
    @@ "UnicodeError"               :> {"ValueError"}
    @@ "UnicodeDecodeError"         :> {"UnicodeError"}
    @@ "UnicodeEncodeError"         :> {"UnicodeError"}
    @@ "UnicodeTranslateError"      :> {"UnicodeError"}
    @@ "Warning"                    :> {"Exception"}
    @@ "JSONDecodeError"            :> {"ValueError"}
    @@ "binascii.Error"             :> {"ValueError"}
    @@ "binascii.Incomplete"        :> {"Exception"}
    @@ "ValidationError"            :> {"ValueError"}
    @@ "HTTPException"              :> {"Exception"}
    @@ "GithubException"            :> {"Exception"}
    @@ "BadCredentialsException"    :> {"GithubException"}
    @@ "UnknownObjectException"     :> {"GithubException"}
    @@ "BadUserAgentException"      :> {"GithubException"}
    @@ "RateLimitExceededException" :> {"GithubException"}
    @@ "TwoFactorException"         :> {"GithubException"}
    @@ "BadAttributeException"      :> {"Exception"}
    @@ "IncompletableObject"        :> {"GithubException"}
    @@ "RequestException"           :> {"OSError"}
    @@ "requests.HTTPError"         :> {"RequestException"}
    @@ "requests.ConnectionError"   :> {"RequestException"}
    @@ "requests.ProxyError"        :> {"requests.ConnectionError"}
    @@ "requests.SSLError"          :> {"requests.ConnectionError"}
    @@ "requests.Timeout"           :> {"RequestException"}
    @@ "requests.ConnectTimeout"    :> {"requests.ConnectionError", "requests.Timeout"}
    @@ "requests.ReadTimeout"       :> {"requests.Timeout"}
    @@ "requests.TooManyRedirects"  :> {"RequestException"}
    @@ "requests.InvalidJSONError"  :> {"RequestException"}
    @@ "requests.JSONDecodeError"   :> {"requests.InvalidJSONError", "JSONDecodeError"}
    @@ "httpx.HTTPError"            :> {"Exception"}
    @@ "RequestError"               :> {"httpx.HTTPError"}
    @@ "HTTPStatusError"            :> {"httpx.HTTPError"}
    @@ "TransportError"             :> {"RequestError"}
    @@ "TooManyRedirects"           :> {"RequestError"}
    @@ "DecodingError"              :> {"RequestError"}
    @@ "TimeoutException"           :> {"TransportError"}
    @@ "ConnectTimeout"             :> {"TimeoutException"}
    @@ "ReadTimeout"                :> {"TimeoutException"}
    @@ "WriteTimeout"               :> {"TimeoutException"}
    @@ "PoolTimeout"                :> {"TimeoutException"}
    @@ "NetworkError"               :> {"TransportError"}
    @@ "ConnectError"               :> {"NetworkError"}
    @@ "ReadError"                  :> {"NetworkError"}
    @@ "WriteError"                 :> {"NetworkError"}
    @@ "CloseError"                 :> {"NetworkError"}
    @@ "ProtocolError"              :> {"TransportError"}
    @@ "LocalProtocolError"         :> {"ProtocolError"}
    @@ "RemoteProtocolError"        :> {"ProtocolError"}
    @@ "ProxyError"                 :> {"TransportError"}
    @@ "UnsupportedProtocol"        :> {"TransportError"}
    @@ "InvalidURL"                 :> {"Exception"}
    @@ "NoneType"                   :> {}

Parents(cls) == ClassStatements[cls]

RECURSIVE Ancestors(_)
Ancestors(cls) ==
    Parents(cls) \cup UNION { Ancestors(p) : p \in Parents(cls) }

Mro == [cls \in DOMAIN ClassStatements |-> Ancestors(cls)]

Bases(cls) == Mro[cls]

IsInstance(e, cls) == e.cls = cls \/ cls \in Bases(e.cls)

\* The decimal digits of a status code, as str() and f-strings print an int.
StatusStr(s) == ToString(s)

HTTPException(status_code, detail) ==
    [cls |-> "HTTPException", status_code |-> status_code, detail |-> detail]

\* str(e): starlette's HTTPException prints "<status_code>: <detail>",
\* every other exception prints its message.
Str(e) ==
    IF e.cls = "HTTPException"
    THEN <<StatusStr(e.status_code), ": ">> \o e.detail
    ELSE e.msg

(***************************************************************************)
(* The request body and its validation (pydantic model ReviewRequest).     *)
(* A description is a run-length encoded string: a sequence of runs        *)
(* [ch, n] meaning n copies of ch.                                         *)
(***************************************************************************)
Run(ch, n) == [ch |-> ch, n |-> n]

RECURSIVE StrLen(_)
StrLen(s) == IF s = <<>> THEN 0 ELSE Head(s).n + StrLen(Tail(s))

\* The characters str.isspace() accepts: what str.strip() removes and what
\* \s matches in a str pattern.  A character that cannot be written in a
\* string here is denoted by its Python escape.
Whitespace ==
    { " ", "\t", "\n", "\r", "\f", "\\x0b", "\\x1c", "\\x1d", "\\x1e", "\\x1f",
      "\\x85", "\\xa0", "\\u1680", "\\u2000", "\\u2001", "\\u2002", "\\u2003",
      "\\u2004", "\\u2005", "\\u2006", "\\u2007", "\\u2008", "\\u2009", "\\u200a",
      "\\u2028", "\\u2029", "\\u202f", "\\u205f", "\\u3000" }

IsSpace(ch) == ch \in Whitespace

RECURSIVE LStrip(_)
LStrip(s) ==
    IF s = <<>> THEN <<>>
    ELSE IF IsSpace(Head(s).ch) \/ Head(s).n = 0 THEN LStrip(Tail(s))
    ELSE s

RECURSIVE Reverse(_)
Reverse(s) == IF s = <<>> THEN <<>> ELSE Append(Reverse(Tail(s)), Head(s))

Strip(s) == Reverse(LStrip(Reverse(LStrip(s))))

Descriptions ==
    { <<>>,
      <<Run(" ", 3)>>,
      <<Run("\r", 2)>>,
      <<Run("C", 22)>>,
      <<Run(" ", 1), Run("x", max_length - 1)>>,
      <<Run("x", max_length + 1)>> }

\* A URL is the posted string: the sequence of its Unicode code points.
\* pydantic's HttpUrl parses it as the WHATWG URL standard says and str()
\* gives the parsed URL's serialisation.
Controls == (0..31) \cup {127}

NonAscii == 128..1114111

\* The percent-encode sets: the controls, every code point above U+007E,
\* and space " < > ` (fragment), space " # < > ' (query), the fragment's
\* and # ? { } (path), the path's and / : ; = @ [ \ ] ^ | (userinfo).
FragmentSet ==
    { c \in Nat :
        c \in Controls \/ c \in NonAscii \/ c \in {32, 34, 60, 62, 96} }

QuerySet ==
    { c \in Nat :
        c \in Controls \/ c \in NonAscii \/ c \in {32, 34, 35, 60, 62, 39} }

PathSet ==
    { c \in Nat : c \in FragmentSet \/ c \in {35, 63, 123, 125} }

UserinfoSet ==
    { c \in Nat :
        c \in PathSet \/ c \in {47, 58, 59, 61, 64, 91, 92, 93, 94, 124} }

\* The code points no domain may hold: controls, space and
\* # % / : < > ? @ [ \ ] ^ |.
ForbiddenHost ==
    Controls \cup {32, 35, 37, 47, 58, 60, 62, 63, 64, 91, 92, 93, 94, 124}

\* str.encode("utf-8") of one code point.
Utf8Encode(c) ==
    IF c < 128 THEN <<c>>
    ELSE IF c < 2048 THEN <<192 + (c \div 64), 128 + (c % 64)>>
    ELSE IF c < 65536
    THEN <<224 + (c \div 4096), 128 + ((c \div 64) % 64), 128 + (c % 64)>>
    ELSE <<240 + (c \div 262144), 128 + ((c \div 4096) % 64),
           128 + ((c \div 64) % 64), 128 + (c % 64)>>

\* len(s.encode("utf-8"))
Utf8Len(s) ==
    Len(s) + Cardinality({ i \in DOMAIN s : s[i] >= 128 })
           + Cardinality({ i \in DOMAIN s : s[i] >= 2048 })
           + Cardinality({ i \in DOMAIN s : s[i] >= 65536 })

\* The upper-case hexadecimal digit of n.
HexDigit(n) == IF n < 10 THEN 48 + n ELSE 55 + n

\* "%XX" of a byte.
PercentByte(b) == <<37, HexDigit(b \div 16), HexDigit(b % 16)>>

RECURSIVE PercentBytes(_)
PercentBytes(bytes) ==
    IF bytes = <<>> THEN <<>>
    ELSE PercentByte(Head(bytes)) \o PercentBytes(Tail(bytes))

RECURSIVE Encode(_, _)
Encode(s, set) ==
    IF s = <<>> THEN <<>>
    ELSE (IF Head(s) \in set THEN PercentBytes(Utf8Encode(Head(s))) ELSE <<Head(s)>>)
         \o Encode(Tail(s), set)

IsHexDigit(ch) == ch \in (48..57) \cup (65..70) \cup (97..102)

HexVal(ch) == IF ch <= 57 THEN ch - 48 ELSE IF ch <= 70 THEN ch - 55 ELSE ch - 87

\* The bytes of s with every "%XX" replaced by the byte it names.
RECURSIVE PercentDecode(_)
PercentDecode(s) ==
    IF s = <<>> THEN <<>>
    ELSE IF Head(s) = 37 /\ Len(s) >= 3 /\ IsHexDigit(s[2]) /\ IsHexDigit(s[3])
    THEN <<16 * HexVal(s[2]) + HexVal(s[3])>> \o PercentDecode(SubSeq(s, 4, Len(s)))
    ELSE Utf8Encode(Head(s)) \o PercentDecode(Tail(s))

\* ASCII lower-casing, as the parser applies to the scheme and the host.
LowerChar(ch) == IF ch \in 65..90 THEN ch + 32 ELSE ch

LowerStr(s) == [i \in DOMAIN s |-> LowerChar(s[i])]

Digits == 48..57

DigitVal(ch) == ch - 48

RECURSIVE StripZeros(_)
StripZeros(p) ==
    IF Len(p) > 1 /\ Head(p) = 48 THEN StripZeros(Tail(p)) ELSE p

RECURSIVE Decimal(_)
Decimal(p) ==
    IF p = <<>> THEN 0
    ELSE 10 * Decimal(SubSeq(p, 1, Len(p) - 1)) + DigitVal(p[Len(p)])

\* The decimal digits of n.
RECURSIVE Dec(_)
Dec(n) == IF n < 10 THEN <<48 + n>> ELSE Dec(n \div 10) \o <<48 + (n % 10)>>

PortOk(p) ==
    /\ \A i \in DOMAIN p : p[i] \in Digits
    /\ Len(StripZeros(p)) <= 5
    /\ Decimal(StripZeros(p)) <= 65535

\* "443" for https, "80" for http.
DefaultPort(scheme) ==
    IF scheme = <<104, 116, 116, 112, 115>> THEN <<52, 52, 51>> ELSE <<56, 48>>

\* Leading and trailing C0 controls and spaces are dropped from the input,
\* then every tab and newline.
RECURSIVE LStripC0(_)
LStripC0(s) ==
    IF s # <<>> /\ Head(s) <= 32 THEN LStripC0(Tail(s)) ELSE s

StripC0(s) == Reverse(LStripC0(Reverse(LStripC0(s))))

RemoveTabNl(s) == SelectSeq(s, LAMBDA ch : ch \notin {9, 10, 13})

\* The first position at or after i of a code point of set, Len(s) + 1 if none.
RECURSIVE IndexOf(_, _, _)
IndexOf(s, set, i) ==
    IF i > Len(s) THEN Len(s) + 1
    ELSE IF s[i] \in set THEN i
    ELSE IndexOf(s, set, i + 1)

\* The last position of ch in s, 0 if none.
RECURSIVE LastIndexOf(_, _)
LastIndexOf(s, ch) ==
    IF s = <<>> THEN 0
    ELSE IF s[Len(s)] = ch THEN Len(s)
    ELSE LastIndexOf(SubSeq(s, 1, Len(s) - 1), ch)

\* After the scheme of http(s) any run of "/" and "\" is skipped.
RECURSIVE SkipSlashes(_, _)
SkipSlashes(s, i) ==
    IF i <= Len(s) /\ s[i] \in {47, 92} THEN SkipSlashes(s, i + 1) ELSE i

\* s.split(sep) for any separator of seps.
RECURSIVE SplitAt(_, _)
SplitAt(s, seps) ==
    IF IndexOf(s, seps, 1) > Len(s) THEN <<s>>
    ELSE <<SubSeq(s, 1, IndexOf(s, seps, 1) - 1)>>
         \o SplitAt(SubSeq(s, IndexOf(s, seps, 1) + 1, Len(s)), seps)

\* A 32-bit number as four bytes, and whether it has overflowed.
Zero == [b |-> <<0, 0, 0, 0>>, over |-> FALSE]

MulAdd(n, r, d) ==
    LET v4 == n.b[4] * r + d
        v3 == n.b[3] * r + (v4 \div 256)
        v2 == n.b[2] * r + (v3 \div 256)
        v1 == n.b[1] * r + (v2 \div 256)
    IN  [b |-> <<v1 % 256, v2 % 256, v3 % 256, v4 % 256>>,
         over |-> n.over \/ v1 >= 256]

RECURSIVE FromStrRadix(_, _, _)
FromStrRadix(digits, r, n) ==
    IF digits = <<>> THEN n
    ELSE FromStrRadix(Tail(digits), r, MulAdd(n, r, HexVal(Head(digits))))

\* One part of an IPv4 address: hexadecimal after "0x", octal after "0",
\* decimal otherwise.
ParseIpv4Number(input) ==
    LET hex == Len(input) >= 2 /\ input[1] = 48 /\ input[2] \in {120, 88}
        oct == ~hex /\ Len(input) >= 2 /\ input[1] = 48
        digits == IF hex THEN SubSeq(input, 3, Len(input))
                  ELSE IF oct THEN Tail(input) ELSE input
        valid == \A i \in DOMAIN digits :
                    IF hex THEN IsHexDigit(digits[i])
                    ELSE IF oct THEN digits[i] \in 48..55
                    ELSE digits[i] \in Digits
    IN  IF input = <<>> \/ ~valid THEN [ok |-> FALSE, n |-> Zero]
        ELSE [ok |-> TRUE,
              n |-> FromStrRadix(digits, IF hex THEN 16 ELSE IF oct THEN 8 ELSE 10, Zero)]

\* The last label of the domain (a trailing dot aside) is a number.
EndsInNumber(domain) ==
    LET parts == SplitAt(domain, {46})
        last == IF parts[Len(parts)] = <<>> /\ Len(parts) > 1
                THEN parts[Len(parts) - 1] ELSE parts[Len(parts)]
    IN  \/ last # <<>> /\ \A i \in DOMAIN last : last[i] \in Digits
        \/ ParseIpv4Number(last).ok

ParsedHost(ok, host) == [ok |-> ok, host |-> host]

\* A domain that ends in a number is an IPv4 address of at most four parts;
\* the last part fills the bytes the parts before it leave.
ParseIpv4(domain) ==
    LET all == SplitAt(domain, {46})
        parts == IF all[Len(all)] = <<>> THEN SubSeq(all, 1, Len(all) - 1) ELSE all
        nums == [i \in DOMAIN parts |-> ParseIpv4Number(parts[i])]
        k == Len(parts) - 1
    IN  IF \/ Len(parts) > 4
           \/ \E i \in DOMAIN parts : ~nums[i].ok \/ nums[i].n.over
           \/ \E i \in 1..k : \E j \in 1..3 : nums[i].n.b[j] # 0
           \/ \E j \in 1..k : nums[k + 1].n.b[j] # 0
        THEN ParsedHost(FALSE, <<>>)
        ELSE ParsedHost(TRUE,
                 LET byte(i) == IF i <= k THEN nums[i].n.b[4] ELSE nums[k + 1].n.b[i]
                 IN  Dec(byte(1)) \o <<46>> \o Dec(byte(2)) \o <<46>>
                     \o Dec(byte(3)) \o <<46>> \o Dec(byte(4)))

\* A label of the domain begins with "xn--".
HasPunycodeLabel(domain) ==
    \E i \in DOMAIN domain :
        /\ i = 1 \/ domain[i - 1] = 46
        /\ i + 3 <= Len(domain)
        /\ SubSeq(domain, i, i + 3) = <<120, 110, 45, 45>>

\* The hosts whose parsing is modelled: no IPv6 literal, ASCII once
\* percent-decoded, and no punycode label.
HostInScope(input) ==
    /\ input = <<>> \/ Head(input) # 91
    /\ \A i \in DOMAIN PercentDecode(input) : PercentDecode(input)[i] < 128
    /\ ~HasPunycodeLabel(LowerStr(PercentDecode(input)))

\* The host parser: percent-decode, lower-case, refuse an empty domain or a
\* forbidden code point, read a domain that ends in a number as IPv4.
ParseHost(input) ==
    CASE HostInScope(input) ->
        IF \/ input = <<>>
           \/ \E i \in DOMAIN PercentDecode(input) :
                 PercentDecode(input)[i] \in ForbiddenHost
        THEN ParsedHost(FALSE, <<>>)
        ELSE IF EndsInNumber(LowerStr(PercentDecode(input)))
        THEN ParseIpv4(LowerStr(PercentDecode(input)))
        ELSE ParsedHost(TRUE, LowerStr(PercentDecode(input)))

IsSingleDot(seg) == LowerStr(seg) \in {<<46>>, <<37, 50, 101>>}

IsDoubleDot(seg) ==
    LowerStr(seg) \in { <<46, 46>>,
                        <<46, 37, 50, 101>>,
                        <<37, 50, 101, 46>>,
                        <<37, 50, 101, 37, 50, 101>> }

\* The path state of the parser: a double-dot segment drops the segment
\* before it, a single-dot segment is dropped, every other segment is
\* percent-encoded; a dot segment at the end leaves an empty segment.
RECURSIVE ResolveSegments(_, _)
ResolveSegments(segs, acc) ==
    IF segs = <<>> THEN acc
    ELSE IF IsDoubleDot(Head(segs))
    THEN ResolveSegments(Tail(segs),
                         (IF acc = <<>> THEN <<>> ELSE SubSeq(acc, 1, Len(acc) - 1))
                         \o (IF Len(segs) = 1 THEN << <<>> >> ELSE <<>>))
    ELSE IF IsSingleDot(Head(segs))
    THEN ResolveSegments(Tail(segs), acc \o (IF Len(segs) = 1 THEN << <<>> >> ELSE <<>>))
    ELSE ResolveSegments(Tail(segs), Append(acc, Encode(Head(segs), PathSet)))

RECURSIVE JoinPath(_)
JoinPath(segs) ==
    IF segs = <<>> THEN <<>> ELSE <<47>> \o Head(segs) \o JoinPath(Tail(segs))

\* The pieces of the authority "userinfo@host:port".
Authority(a) ==
    LET at == LastIndexOf(a, 64)
        userinfo == SubSeq(a, 1, at - 1)
        hostport == SubSeq(a, at + 1, Len(a))
        ucolon == IndexOf(userinfo, {58}, 1)
        pcolon == IndexOf(hostport, {58}, 1)
    IN  [username |-> Encode(SubSeq(userinfo, 1, ucolon - 1), UserinfoSet),
         password |-> Encode(SubSeq(userinfo, ucolon + 1, Len(userinfo)), UserinfoSet),
         host |-> SubSeq(hostport, 1, pcolon - 1),
         port |-> SubSeq(hostport, pcolon + 1, Len(hostport))]

\* What follows the authority: path, "?" query and "#" fragment.
PathQueryFragment(rest) ==
    LET hash == IndexOf(rest, {35}, 1)
        mark == IndexOf(SubSeq(rest, 1, hash - 1), {63}, 1)
        path == SubSeq(rest, 1, mark - 1)
    IN  JoinPath(ResolveSegments(SplitAt(IF path = <<>> THEN <<>> ELSE Tail(path),
                                         {47, 92}),
                                 <<>>))
        \o (IF mark < hash
            THEN <<63>> \o Encode(SubSeq(rest, mark + 1, hash - 1), QuerySet)
            ELSE <<>>)
        \o (IF hash <= Len(rest)
            THEN <<35>> \o Encode(SubSeq(rest, hash + 1, Len(rest)), FragmentSet)
            ELSE <<>>)

ParsedUrl(scheme, authority, rest) ==
    [scheme |-> scheme, authority |-> authority, rest |-> rest]

\* The posted string cut into scheme, authority and the rest.
ParseUrl(raw) ==
    LET s == RemoveTabNl(StripC0(raw))
        colon == IndexOf(s, {58}, 1)
        start == SkipSlashes(s, colon + 1)
        end == IndexOf(s, {47, 92, 63, 35}, start)
    IN  ParsedUrl(LowerStr(SubSeq(s, 1, colon - 1)),
                  Authority(SubSeq(s, start, end - 1)),
                  SubSeq(s, end, Len(s)))

HttpUrlOk(u) ==
    /\ u.scheme \in {<<104, 116, 116, 112>>, <<104, 116, 116, 112, 115>>}
    /\ ParseHost(u.authority.host).ok
    /\ PortOk(u.authority.port)

\* pydantic HttpUrl: a str (no lone surrogate) of at most 2083 bytes with
\* an http(s) scheme, a host and a port that parse.
IsHttpUrl(raw) ==
    /\ \A i \in DOMAIN raw : raw[i] \notin 55296..57343
    /\ Utf8Len(raw) <= 2083
    /\ HttpUrlOk(ParseUrl(raw))

Serialize(u) ==
    u.scheme \o <<58, 47, 47>>
    \o (IF u.authority.username = <<>> /\ u.authority.password = <<>> THEN <<>>
        ELSE u.authority.username
             \o (IF u.authority.password = <<>> THEN <<>>
                 ELSE <<58>> \o u.authority.password)
             \o <<64>>)
    \o ParseHost(u.authority.host).host
    \o (IF u.authority.port = <<>>
           \/ StripZeros(u.authority.port) = DefaultPort(u.scheme)
        THEN <<>> ELSE <<58>> \o StripZeros(u.authority.port))
    \o PathQueryFragment(u.rest)

\* str(HttpUrl): the serialisation of the parsed URL.
UrlStr(raw) == Serialize(ParseUrl(raw))

\* "https://github.com/example/repo"
PlainUrl ==
    <<104, 116, 116, 112, 115, 58, 47, 47, 103, 105, 116, 104, 117, 98, 46,
      99, 111, 109, 47, 101, 120, 97, 109, 112, 108, 101, 47, 114, 101, 112,
      111>>

\* As a Python literal: " HTTPS:\\\\:@%47itHub.com:0443/a/../example/my r\u00e9po\n"
\* (a space, the scheme in upper case, two backslashes, empty credentials, a
\* percent-encoded letter in the host, the default port with a leading zero,
\* a dot segment, a space and a non-ASCII letter in the path, a line feed).
UnnormalisedUrl ==
    <<32, 72, 84, 84, 80, 83, 58, 92, 92, 58, 64, 37, 52, 55, 105, 116, 72,
      117, 98, 46, 99, 111, 109, 58, 48, 52, 52, 51, 47, 97, 47, 46, 46, 47,
      101, 120, 97, 109, 112, 108, 101, 47, 109, 121, 32, 114, 233, 112, 111,
      10>>

\* The URLs posted: the empty string, the two above, and
\* "https://invalid-url",
\* "http://github.com/example/repo",
\* "https://github.com.evil.io/example/repo",
\* "github.com/example/repo",
\* "https://0x7f.1/example/repo",
\* "https://1.2.3.4.5/example/repo",
\* "https://git hub.com/example/repo",
\* "https://user@github.com/example/repo" and
\* "https://github.com/github.com/x".
Urls ==
    { <<>>, PlainUrl, UnnormalisedUrl,
      <<104, 116, 116, 112, 115, 58, 47, 47, 105, 110, 118, 97, 108, 105,
        100, 45, 117, 114, 108>>,
      <<104, 116, 116, 112, 58, 47, 47, 103, 105, 116, 104, 117, 98, 46, 99,
        111, 109, 47, 101, 120, 97, 109, 112, 108, 101, 47, 114, 101, 112, 111>>,
      <<104, 116, 116, 112, 115, 58, 47, 47, 103, 105, 116, 104, 117, 98, 46,
        99, 111, 109, 46, 101, 118, 105, 108, 46, 105, 111, 47, 101, 120, 97,
        109, 112, 108, 101, 47, 114, 101, 112, 111>>,
      <<103, 105, 116, 104, 117, 98, 46, 99, 111, 109, 47, 101, 120, 97, 109,
        112, 108, 101, 47, 114, 101, 112, 111>>,
      <<104, 116, 116, 112, 115, 58, 47, 47, 48, 120, 55, 102, 46, 49, 47,
        101, 120, 97, 109, 112, 108, 101, 47, 114, 101, 112, 111>>,
      <<104, 116, 116, 112, 115, 58, 47, 47, 49, 46, 50, 46, 51, 46, 52, 46,
        53, 47, 101, 120, 97, 109, 112, 108, 101, 47, 114, 101, 112, 111>>,
      <<104, 116, 116, 112, 115, 58, 47, 47, 103, 105, 116, 32, 104, 117, 98,
        46, 99, 111, 109, 47, 101, 120, 97, 109, 112, 108, 101, 47, 114, 101,
        112, 111>>,
      <<104, 116, 116, 112, 115, 58, 47, 47, 117, 115, 101, 114, 64, 103,
        105, 116, 104, 117, 98, 46, 99, 111, 109, 47, 101, 120, 97, 109, 112,
        108, 101, 47, 114, 101, 112, 111>>,
      <<104, 116, 116, 112, 115, 58, 47, 47, 103, 105, 116, 104, 117, 98, 46,
        99, 111, 109, 47, 103, 105, 116, 104, 117, 98, 46, 99, 111, 109, 47,
        120>> }

Levels == {"Junior", "Senior", "Expert"}

StartsWith(s, prefix) ==
    Len(s) >= Len(prefix) /\ SubSeq(s, 1, Len(prefix)) = prefix

\* Variant: the description is only checked for emptiness, not stripped.
validate_assignment_description_unstripped(value) == value # <<>>

validate_assignment_description(value) == Strip(value) # <<>>

\* Variant: only the scheme is checked.
validate_github_repo_url_any_host(value) ==
    StartsWith(UrlStr(value), <<104, 116, 116, 112, 115, 58, 47, 47>>)

\* str(value).startswith("https://github.com/")
validate_github_repo_url(value) ==
    StartsWith(UrlStr(value),
               <<104, 116, 116, 112, 115, 58, 47, 47,
                 103, 105, 116, 104, 117, 98, 46, 99, 111, 109, 47>>)

ReviewRequestValid(r) ==
    /\ StrLen(r.assignment_description) >= min_length
    /\ StrLen(r.assignment_description) <= max_length
    /\ validate_assignment_description(r.assignment_description)
    /\ IsHttpUrl(r.github_repo_url)
    /\ validate_github_repo_url(r.github_repo_url)
    /\ r.candidate_level \in {"Junior", "Middle", "Senior"}

\* The requests posted: one well-formed request and every request that
\* differs from it in one field.
PlainRequest ==
    [assignment_description |-> <<Run("C", 22)>>,
     github_repo_url |-> PlainUrl,
     candidate_level |-> "Junior"]

Requests ==
    { r \in [assignment_description : Descriptions,
             github_repo_url : Urls,
             candidate_level : Levels] :
        Cardinality({ f \in DOMAIN r : r[f] # PlainRequest[f] }) <= 1 }

(***************************************************************************)
(* bytes.decode("utf-8"): strict UTF-8 decoding to code points.            *)
(***************************************************************************)
IsCont(b) == b >= 128 /\ b <= 191

\* Number of bytes of the well-formed sequence starting at b[i], 0 if none.
Utf8Width(b, i) ==
    LET b1 == b[i]
        has(k) == i + k <= Len(b)
        c(k) == b[i + k]
    IN  IF b1 <= 127 THEN 1
        ELSE IF b1 >= 194 /\ b1 <= 223
             THEN IF has(1) /\ IsCont(c(1)) THEN 2 ELSE 0
        ELSE IF b1 >= 224 /\ b1 <= 239
             THEN IF /\ has(2) /\ IsCont(c(1)) /\ IsCont(c(2))
                     /\ (b1 = 224 => c(1) >= 160)
                     /\ (b1 = 237 => c(1) <= 159)
                  THEN 3 ELSE 0
        ELSE IF b1 >= 240 /\ b1 <= 244
             THEN IF /\ has(3) /\ IsCont(c(1)) /\ IsCont(c(2)) /\ IsCont(c(3))
                     /\ (b1 = 240 => c(1) >= 144)
                     /\ (b1 = 244 => c(1) <= 143)
                  THEN 4 ELSE 0
        ELSE 0

Utf8CodePoint(b, i, w) ==
    CASE w = 1 -> b[i]
      [] w = 2 -> (b[i] - 192) * 64 + (b[i + 1] - 128)
      [] w = 3 -> (b[i] - 224) * 4096 + (b[i + 1] - 128) * 64 + (b[i + 2] - 128)
      [] w = 4 -> (b[i] - 240) * 262144 + (b[i + 1] - 128) * 4096
                  + (b[i + 2] - 128) * 64 + (b[i + 3] - 128)

RECURSIVE DecodeFrom(_, _, _)
DecodeFrom(b, i, acc) ==
    IF i > Len(b) THEN [ok |-> TRUE, text |-> acc]
    ELSE LET w == Utf8Width(b, i)
         IN  IF w = 0 THEN [ok |-> FALSE, text |-> <<>>]
             ELSE DecodeFrom(b, i + w, Append(acc, Utf8CodePoint(b, i, w)))

Utf8Decode(b) == DecodeFrom(b, 1, <<>>)

(***************************************************************************)
(* Repository trees as the GitHub API serves them.  A tree is a sequence   *)
(* of nodes; node i has a parent (0 = repository root, otherwise an        *)
(* earlier directory node) and the attributes of a ContentFile.  A         *)
(* directory's listing returns its children in index order.                *)
(***************************************************************************)
Names == {"a", "b"}

Payloads ==
    { [type |-> "dir",  size |-> 0, decoded_content |-> <<>>],
      [type |-> "file", size |-> 2, decoded_content |-> <<104, 105>>],
      [type |-> "file", size |-> MAX_CONTENT_SIZE,
                        decoded_content |-> <<195, 169>>],
      [type |-> "file", size |-> MAX_CONTENT_SIZE + 1,
                        decoded_content |-> <<104, 105>>],
      [type |-> "file", size |-> 1, decoded_content |-> <<255>>],
      [type |-> "symlink", size |-> 1, decoded_content |-> <<46>>] }

Node(p, nm, pl) ==
    [parent |-> p, name |-> nm, type |-> pl.type, size |-> pl.size,
     decoded_content |-> pl.decoded_content]

CanAdd(t, p, nm) ==
    /\ p = 0 \/ t[p].type = "dir"
    /\ \A j \in 1..Len(t) : t[j].parent = p => t[j].name # nm

RECURSIVE TreesOf(_)
TreesOf(n) ==
    IF n = 0 THEN {<<>>}
    ELSE UNION { { Append(t, Node(x[1], x[2], x[3])) :
                     x \in { y \in (0..(n - 1)) \X Names \X Payloads :
                               CanAdd(t, y[1], y[2]) } } :
                 t \in TreesOf(n - 1) }

Trees == UNION { TreesOf(n) : n \in 0..MaxNodes }

RECURSIVE PathOf(_, _)
PathOf(t, i) ==
    IF i = 0 THEN <<>> ELSE Append(PathOf(t, t[i].parent), t[i].name)

ContentFile(t, i) ==
    [name |-> t[i].name, path |-> PathOf(t, i), type |-> t[i].type,
     size |-> t[i].size, decoded_content |-> t[i].decoded_content]

\* repo.get_contents(path) for a directory path ("" is <<>>).
RECURSIVE ListFrom(_, _, _)
ListFrom(t, path, i) ==
    IF i > Len(t) THEN <<>>
    ELSE IF PathOf(t, t[i].parent) = path
         THEN <<ContentFile(t, i)>> \o ListFrom(t, path, i + 1)
         ELSE ListFrom(t, path, i + 1)

get_contents(t, path) == ListFrom(t, path, 1)

(***************************************************************************)
(* GitHubRepositoryFetcher helpers.                                        *)
(***************************************************************************)
FileInfo(name, path, content) ==
    [name |-> name, path |-> path, content |-> content]

\* A Python str held in FileInfo.content: either decoded text (code points)
\* or the message f"File content saved to {file_path}".
TextContent(chars) == [kind |-> "text", text |-> chars, path |-> <<>>]
SavedContent(file_path) ==
    [kind |-> "File content saved to ", text |-> <<>>, path |-> file_path]

Returned(v) == [ok |-> TRUE, value |-> v, exc |-> None]
Raised(e) == [ok |-> FALSE, value |-> None, exc |-> e]

\* str.find: the first position at or after i where sep occurs in s, 0 if none.
RECURSIVE Find(_, _, _)
Find(s, sep, i) ==
    IF i + Len(sep) - 1 > Len(s) THEN 0
    ELSE IF SubSeq(s, i, i + Len(sep) - 1) = sep THEN i
    ELSE Find(s, sep, i + 1)

\* s.split(sep)[1]: what lies between the first occurrence of sep and the
\* next one (or the end of s); IndexError if sep does not occur.
SplitSecond(s, sep, first) ==
    IF first = 0
    THEN Raised([cls |-> "IndexError", msg |-> <<"list index out of range">>])
    ELSE IF Find(s, sep, first + Len(sep)) = 0
    THEN Returned(SubSeq(s, first + Len(sep), Len(s)))
    ELSE Returned(SubSeq(s, first + Len(sep), Find(s, sep, first + Len(sep)) - 1))

\* str(repo_url).split("github.com/")[1]
_extract_repo_name(repo_url) ==
    SplitSecond(UrlStr(repo_url),
                <<103, 105, 116, 104, 117, 98, 46, 99, 111, 109, 47>>,
                Find(UrlStr(repo_url),
                     <<103, 105, 116, 104, 117, 98, 46, 99, 111, 109, 47>>, 1))

\* os.path.join("/tmp", path) for a relative path
TmpJoin(path) == <<"/tmp">> \o path

WriteFile(d, file_path, data) ==
    { f \in d : f.path # file_path } \cup {[path |-> file_path, data |-> data]}

\* What the file system does to _save_large_file: all goes well; makedirs
\* cannot create the directory `depth` components below /tmp; open fails
\* (in both cases no file is touched); or open has created or truncated the
\* file and write fails after `written` bytes.
IoOutcome(fails, depth, written) ==
    [fails |-> fails, depth |-> depth, written |-> written]

IoOutcomes ==
    { IoOutcome("", 0, 0), IoOutcome("open", 0, 0) }
    \cup { IoOutcome("makedirs", k, 0) : k \in 1..(MaxNodes - 1) }
    \cup { IoOutcome("write", 0, k) : k \in 0..1 }

\* The directory dir is on disk: a file lies below it.
IsDir(d, dir) ==
    \E f \in d : Len(f.path) > Len(dir) /\ SubSeq(f.path, 1, Len(dir)) = dir

\* os.makedirs(os.path.dirname(file_path), exist_ok=True) fails: it creates
\* the directories above file_path that are missing, the outer ones first,
\* and the one at io.depth is among them.
MakedirsFails(file_path, d, io) ==
    /\ io.fails = "makedirs"
    /\ io.depth + 1 < Len(file_path)
    /\ ~IsDir(d, SubSeq(file_path, 1, io.depth + 1))

Min(a, b) == IF a < b THEN a ELSE b

\* The OSError the file system raises for an outcome that fails; that of
\* makedirs names the directory, that of open the file.
IoError(file_path, io) ==
    IF io.fails = "makedirs"
    THEN [cls |-> "PermissionError",
          msg |-> <<"[Errno 13] Permission denied: '">>
                  \o SubSeq(file_path, 1, io.depth + 1) \o <<"'">>]
    ELSE IF io.fails = "open"
    THEN [cls |-> "PermissionError",
          msg |-> <<"[Errno 13] Permission denied: '">> \o file_path \o <<"'">>]
    ELSE [cls |-> "OSError", msg |-> <<"[Errno 28] No space left on device">>]

\* The except clause of _save_large_file.
_save_large_file_except(e) ==
    IF IsInstance(e, "Exception")
    THEN Raised(HTTPException(500, <<"Error saving large file: ">> \o Str(e)))
    ELSE Raised(e)

\* Variant: a file that is already on disk is not overwritten, the bytes go
\* to a fresh path next to it.
_save_large_file_versioned(file_content, d, io) ==
    IF io.fails = ""
       \/ (io.fails = "makedirs"
           /\ ~MakedirsFails(TmpJoin(file_content.path), d, io))
    THEN IF \E f \in d : f.path = TmpJoin(file_content.path)
         THEN [res |-> Returned(SavedContent(TmpJoin(file_content.path) \o <<".1">>)),
               disk |-> WriteFile(d, TmpJoin(file_content.path) \o <<".1">>,
                                  file_content.decoded_content)]
         ELSE [res |-> Returned(SavedContent(TmpJoin(file_content.path))),
               disk |-> WriteFile(d, TmpJoin(file_content.path),
                                  file_content.decoded_content)]
    ELSE [res |-> _save_large_file_except(IoError(TmpJoin(file_content.path), io)),
          disk |-> IF io.fails \in {"makedirs", "open"} THEN d
                   ELSE WriteFile(d, TmpJoin(file_content.path),
                                  SubSeq(file_content.decoded_content, 1,
                                         Min(io.written,
                                             Len(file_content.decoded_content))))]

\* _save_large_file: io is what the file system does.
_save_large_file(file_content, d, io) ==
    IF io.fails = ""
       \/ (io.fails = "makedirs"
           /\ ~MakedirsFails(TmpJoin(file_content.path), d, io))
    THEN [res |-> Returned(SavedContent(TmpJoin(file_content.path))),
          disk |-> WriteFile(d, TmpJoin(file_content.path),
                             file_content.decoded_content)]
    ELSE [res |-> _save_large_file_except(IoError(TmpJoin(file_content.path), io)),
          disk |-> IF io.fails \in {"makedirs", "open"} THEN d
                   ELSE WriteFile(d, TmpJoin(file_content.path),
                                  SubSeq(file_content.decoded_content, 1,
                                         Min(io.written,
                                             Len(file_content.decoded_content))))]

\* Variant: the size test is >= instead of >.
_get_file_content_inclusive(file_content, d, io) ==
    IF file_content.size >= MAX_CONTENT_SIZE
    THEN _save_large_file(file_content, d, io)
    ELSE LET dec == Utf8Decode(file_content.decoded_content)
         IN  IF dec.ok
             THEN [res |-> Returned(TextContent(dec.text)), disk |-> d]
             ELSE [res |-> Raised([cls |-> "UnicodeDecodeError",
                                   msg |-> <<"'utf-8' codec can't decode byte">>]),
                   disk |-> d]

\* Variant: the fetcher classifies the decode failure itself.
_get_file_content_classified(file_content, d, io) ==
    IF file_content.size > MAX_CONTENT_SIZE
    THEN _save_large_file(file_content, d, io)
    ELSE LET dec == Utf8Decode(file_content.decoded_content)
         IN  IF dec.ok
             THEN [res |-> Returned(TextContent(dec.text)), disk |-> d]
             ELSE [res |-> Raised(HTTPException(500,
                              <<"Error decoding file: ",
                                "'utf-8' codec can't decode byte">>)),
                   disk |-> d]

_get_file_content(file_content, d, io) ==
    IF file_content.size > MAX_CONTENT_SIZE
    THEN _save_large_file(file_content, d, io)
    ELSE LET dec == Utf8Decode(file_content.decoded_content)
         IN  IF dec.ok
             THEN [res |-> Returned(TextContent(dec.text)), disk |-> d]
             ELSE [res |-> Raised([cls |-> "UnicodeDecodeError",
                                   msg |-> <<"'utf-8' codec can't decode byte">>]),
                   disk |-> d]

(***************************************************************************)
(* CodeAnalyzer: section extraction and result parsing.  A generated text  *)
(* is a sequence of tokens whose concatenation is the text: the characters *)
(* "#", "*", "-", ":" and every whitespace character one by one, every     *)
(* occurrence of a section name ("Rating", "Conclusion"), also inside a    *)
(* longer word, as a token of its own, and every remaining maximal run of  *)
(* characters as one word ("Ratings" is "Rating", "s").                    *)
(***************************************************************************)
IsWs(tok) == tok \in Whitespace

\* text[k], or "" past the end of the text.
Tok(text, k) == IF k >= 1 /\ k <= Len(text) THEN text[k] ELSE ""

\* \s* : the first position at or after k that holds no whitespace.
RECURSIVE SkipWs(_, _)
SkipWs(text, k) == IF IsWs(Tok(text, k)) THEN SkipWs(text, k + 1) ELSE k

\* (?:###?\s*|\*\*|-\s*) at position i: the position after it, 0 if no match.
HeadingPrefixEnd(text, i) ==
    IF Tok(text, i) = "#" /\ Tok(text, i + 1) = "#"
    THEN SkipWs(text, IF Tok(text, i + 2) = "#" THEN i + 3 ELSE i + 2)
    ELSE IF Tok(text, i) = "*" /\ Tok(text, i + 1) = "*" THEN i + 2
    ELSE IF Tok(text, i) = "-" THEN SkipWs(text, i + 1)
    ELSE 0

\* (?=\n(?:###?|\*\*|-\s*)|\Z) at position e.
SectionEndsAt(text, e) ==
    \/ e = Len(text) + 1
    \/ /\ Tok(text, e) = "\n"
       /\ \/ Tok(text, e + 1) = "#" /\ Tok(text, e + 2) = "#"
          \/ Tok(text, e + 1) = "*" /\ Tok(text, e + 2) = "*"
          \/ Tok(text, e + 1) = "-"

\* (.*?) from g: the lazy group stops at the first position the lookahead accepts.
RECURSIVE GroupEnd(_, _)
GroupEnd(text, e) ==
    IF SectionEndsAt(text, e) THEN e ELSE GroupEnd(text, e + 1)

\* NAME[:*]?\s*(.*?)(?=...) once the heading prefix ended before position p:
\* [matched, group start, group end).
MatchName(text, p, section_name) ==
    IF p = 0 \/ Tok(text, p) # section_name
    THEN [matched |-> FALSE, from |-> 0, to |-> 0]
    ELSE [matched |-> TRUE,
          from |-> SkipWs(text, IF Tok(text, p + 1) \in {":", "*"} THEN p + 2 ELSE p + 1),
          to |-> GroupEnd(text, SkipWs(text, IF Tok(text, p + 1) \in {":", "*"}
                                             THEN p + 2 ELSE p + 1))]

\* The whole pattern anchored at i.
MatchAt(text, i, section_name) ==
    MatchName(text, HeadingPrefixEnd(text, i), section_name)

\* pattern.search: the leftmost position where the pattern matches.
RECURSIVE Search(_, _, _)
Search(text, i, section_name) ==
    IF i > Len(text) THEN [matched |-> FALSE, from |-> 0, to |-> 0]
    ELSE IF MatchAt(text, i, section_name).matched
         THEN MatchAt(text, i, section_name)
         ELSE Search(text, i + 1, section_name)

RECURSIVE LStripText(_)
LStripText(t) ==
    IF t # <<>> /\ IsWs(Head(t)) THEN LStripText(Tail(t)) ELSE t

RECURSIVE RStripText(_)
RStripText(t) ==
    IF t # <<>> /\ IsWs(t[Len(t)]) THEN RStripText(SubSeq(t, 1, Len(t) - 1)) ELSE t

StripText(t) == RStripText(LStripText(t))

\* Variant: the section name is not lower-cased.
Lower_unchanged(section_name) == section_name

\* section_name.lower() of the two names parse_result passes.
Lower(section_name) ==
    CASE section_name = "Rating" -> "rating"
      [] section_name = "Conclusion" -> "conclusion"

\* match.group(1).strip(), or the default message if there is no match.
SectionOrDefault(text, m, section_name) ==
    IF m.matched
    THEN StripText(SubSeq(text, m.from, m.to - 1))
    ELSE <<"No", " ", Lower(section_name), " ", "available">>

extract_section(text, section_name) ==
    SectionOrDefault(text, Search(text, 1, section_name), section_name)

\* A decoded JSON document, as far as parse_result looks into it.
JsonObject(has_openai, has_text, text) ==
    [kind |-> "object", has_openai |-> has_openai, has_text |-> has_text,
     generated_text |-> text]
JsonArray == [kind |-> "array", has_openai |-> FALSE, has_text |-> FALSE,
              generated_text |-> <<>>]
JsonBadOpenai == [kind |-> "openai is not an object", has_openai |-> TRUE,
                  has_text |-> FALSE, generated_text |-> <<>>]
JsonInvalid == [kind |-> "invalid", has_openai |-> FALSE, has_text |-> FALSE,
                generated_text |-> <<>>]

\* Variant: a name is reported once, however many files carry it.
ParsedResult_unique_names(generated_text, file_names) ==
    LET Unique[k \in 0..Len(file_names)] ==
            IF k = 0 THEN <<>>
            ELSE IF \E j \in 1..(k - 1) : file_names[j] = file_names[k]
                 THEN Unique[k - 1]
                 ELSE Append(Unique[k - 1], file_names[k])
    IN  ("Found files" :> Unique[Len(file_names)])
        @@ ("Downsides/Comments" :> generated_text)
        @@ ("Rating" :> extract_section(generated_text, "Rating"))
        @@ ("Conclusion" :> extract_section(generated_text, "Conclusion"))

ParsedResult(generated_text, file_names) ==
    ("Found files" :> file_names)
    @@ ("Downsides/Comments" :> generated_text)
    @@ ("Rating" :> extract_section(generated_text, "Rating"))
    @@ ("Conclusion" :> extract_section(generated_text, "Conclusion"))

parse_result(result, file_names) ==
    ParsedResult(IF result.has_openai /\ result.has_text
                 THEN result.generated_text
                 ELSE <<"No", " ", "suggestion", " ", "available">>,
                 file_names)

\* Python truthiness of what _send_request returns (None or a dict).
Truthy(v) == v # None /\ DOMAIN v # {}

RECURSIVE Pow(_, _)
Pow(b, n) == IF n = 0 THEN 1 ELSE b * Pow(b, n - 1)

(***************************************************************************)
(* What the two collaborators can answer.                                  *)
(***************************************************************************)
GhException(cls, status, msg) == [cls |-> cls, status |-> status, msg |-> msg]

GhExceptions ==
    { GhException("RateLimitExceededException", 403, <<"403 ", "API rate limit exceeded">>),
      GhException("UnknownObjectException", 404, <<"404 ", "Not Found">>),
      GhException("GithubException", 502, <<"502 ", "Bad Gateway">>),
      GhException("Exception", 0, <<"Connection reset by peer">>) }

\* What a GitHub call does: raise an exception, or (None) answer normally.
GhAnswers == {None} \cup GhExceptions

GeneratedTexts ==
    { <<"*", "*", "Rating", ":", "*", "*", " ", "8/10", "\n",
        "*", "*", "Conclusion", ":", "*", "*", " ", "Good">>,
      <<"#", "#", "#", " ", "Rating", "\n", "8/10", "\n",
        "#", "#", "#", " ", "Conclusion", "\n", "Good">>,
      <<"Looks", " ", "fine">>,
      <<>> }

HttpResponse(status_code, body, text) ==
    [kind |-> "response", status_code |-> status_code, body |-> body, text |-> text]

\* What client.post does: raise httpx.ConnectError or return a response.
AIAnswers ==
    { [kind |-> "ConnectError", status_code |-> 0, body |-> JsonInvalid,
       text |-> <<"All connection attempts failed">>] }
    \cup { HttpResponse(200, JsonObject(TRUE, TRUE, t), <<>>) : t \in GeneratedTexts }
    \cup { HttpResponse(200, JsonObject(FALSE, FALSE, <<>>), <<>>),
           HttpResponse(200, JsonArray, <<>>),
           HttpResponse(200, JsonBadOpenai, <<>>),
           HttpResponse(200, JsonInvalid, <<>>),
           HttpResponse(429, JsonInvalid, <<"Too Many Requests">>),
           HttpResponse(500, JsonInvalid, <<"Internal Server Error">>),
           HttpResponse(401, JsonInvalid, <<"Unauthorized">>) }

(***************************************************************************)
(* GitHubRepositoryFetcher operations (answer: what github answers).       *)
(***************************************************************************)
\* Variant: the 404 case is not told apart from other GitHub errors.
_get_repository_without_404(answer, tree) ==
    IF answer = None THEN Returned(tree)
    ELSE IF IsInstance(answer, "RateLimitExceededException")
         THEN Raised(HTTPException(429, <<"GitHub API rate limit exceeded.">>))
    ELSE IF IsInstance(answer, "GithubException")
         THEN Raised(HTTPException(500, <<"Error fetching repository: ">> \o Str(answer)))
    ELSE IF IsInstance(answer, "Exception")
         THEN Raised(HTTPException(500, <<"Unexpected error: ">> \o Str(answer)))
    ELSE Raised(answer)

_get_repository(answer, tree) ==
    IF answer = None THEN Returned(tree)
    ELSE IF IsInstance(answer, "RateLimitExceededException")
         THEN Raised(HTTPException(429, <<"GitHub API rate limit exceeded.">>))
    ELSE IF IsInstance(answer, "GithubException")
         THEN IF answer.status = 404
              THEN Raised(HTTPException(404, <<"Repository not found: ">> \o Str(answer)))
              ELSE Raised(HTTPException(500, <<"Error fetching repository: ">> \o Str(answer)))
    ELSE IF IsInstance(answer, "Exception")
         THEN Raised(HTTPException(500, <<"Unexpected error: ">> \o Str(answer)))
    ELSE Raised(answer)

_get_repo_files(answer, tree) ==
    IF answer = None THEN Returned(get_contents(tree, <<>>))
    ELSE IF IsInstance(answer, "GithubException")
         THEN Raised(HTTPException(500,
                        <<"Error fetching repository contents: ">> \o Str(answer)))
    ELSE IF IsInstance(answer, "Exception")
         THEN Raised(HTTPException(500, <<"Unexpected error: ">> \o Str(answer)))
    ELSE Raised(answer)

\* Variant: the else is lost, a directory is expanded and recorded as well.
_process_files_step_records_dirs(tree, queue, acc, d, answer, io) ==
    LET file_content == Head(queue)
        rest == Tail(queue)
        c == _get_file_content(file_content, d, io)
        children == IF file_content.type = "dir"
                    THEN get_contents(tree, file_content.path) ELSE <<>>
    IN  IF file_content.type = "dir" /\ answer # None
        THEN [exc |-> answer, files |-> rest, all_files |-> acc, disk |-> d]
        ELSE IF c.res.ok
        THEN [exc |-> None, files |-> rest \o children,
              all_files |-> Append(acc, FileInfo(file_content.name, file_content.path,
                                                 c.res.value)),
              disk |-> c.disk]
        ELSE [exc |-> c.res.exc, files |-> rest, all_files |-> acc, disk |-> c.disk]

\* Variant: the listing of a directory is added to the queue twice.
_process_files_step_extends_twice(tree, queue, acc, d, answer, io) ==
    LET file_content == Head(queue)
        rest == Tail(queue)
    IN  IF file_content.type = "dir"
        THEN IF answer = None
             THEN [exc |-> None,
                   files |-> rest \o get_contents(tree, file_content.path)
                                  \o get_contents(tree, file_content.path),
                   all_files |-> acc, disk |-> d]
             ELSE [exc |-> answer, files |-> rest, all_files |-> acc, disk |-> d]
        ELSE LET c == _get_file_content(file_content, d, io)
             IN  IF c.res.ok
                 THEN [exc |-> None, files |-> rest,
                       all_files |-> Append(acc, FileInfo(file_content.name,
                                                          file_content.path,
                                                          c.res.value)),
                       disk |-> c.disk]
                 ELSE [exc |-> c.res.exc, files |-> rest, all_files |-> acc,
                       disk |-> c.disk]

\* Variant: a directory's children are put at the front of the queue.
_process_files_step_lifo(tree, queue, acc, d, answer, io) ==
    LET file_content == Head(queue)
        rest == Tail(queue)
    IN  IF file_content.type = "dir"
        THEN IF answer = None
             THEN [exc |-> None, files |-> get_contents(tree, file_content.path) \o rest,
                   all_files |-> acc, disk |-> d]
             ELSE [exc |-> answer, files |-> rest, all_files |-> acc, disk |-> d]
        ELSE LET c == _get_file_content(file_content, d, io)
             IN  IF c.res.ok
                 THEN [exc |-> None, files |-> rest,
                       all_files |-> Append(acc, FileInfo(file_content.name,
                                                          file_content.path,
                                                          c.res.value)),
                       disk |-> c.disk]
                 ELSE [exc |-> c.res.exc, files |-> rest, all_files |-> acc,
                       disk |-> c.disk]

\* One iteration of the while loop of _process_files on a non-empty queue.
\* answer: what repo.get_contents does if called; io: what the disk does.
_process_files_step(tree, queue, acc, d, answer, io) ==
    LET file_content == Head(queue)
        rest == Tail(queue)
    IN  IF file_content.type = "dir"
        THEN IF answer = None
             THEN [exc |-> None, files |-> rest \o get_contents(tree, file_content.path),
                   all_files |-> acc, disk |-> d]
             ELSE [exc |-> answer, files |-> rest, all_files |-> acc, disk |-> d]
        ELSE LET c == _get_file_content(file_content, d, io)
             IN  IF c.res.ok
                 THEN [exc |-> None, files |-> rest,
                       all_files |-> Append(acc, FileInfo(file_content.name,
                                                          file_content.path,
                                                          c.res.value)),
                       disk |-> c.disk]
                 ELSE [exc |-> c.res.exc, files |-> rest, all_files |-> acc,
                       disk |-> c.disk]

(***************************************************************************)
(* CodeAnalyzer._send_request: the try body, then the except clauses.      *)
(***************************************************************************)
Sleep(fn, secs) == [fn |-> fn, secs |-> secs]

\* Variant: the client is the requests library, a connectivity failure is a
\* requests.RequestException.
_send_request_try_requests(answer, names) ==
    IF answer.kind = "ConnectError"
    THEN [res |-> Raised([cls |-> "RequestException", msg |-> answer.text]), slept |-> <<>>]
    ELSE IF answer.status_code = 200
    THEN IF answer.body.kind = "invalid"
         THEN [res |-> Raised([cls |-> "JSONDecodeError",
                               msg |-> <<"Expecting value: line 1 column 1 (char 0)">>]),
               slept |-> <<>>]
         ELSE IF answer.body.kind # "object"
         THEN [res |-> Raised([cls |-> "AttributeError",
                               msg |-> <<"object has no attribute 'get'">>]),
               slept |-> <<>>]
         ELSE [res |-> Returned(parse_result(answer.body, names)), slept |-> <<>>]
    ELSE IF answer.status_code = 429
    THEN [res |-> Raised(HTTPException(429, <<"AI service rate limit exceeded.">>)),
          slept |-> <<Sleep("time.sleep", Pow(backoff_factor, 2))>>]
    ELSE [res |-> Raised(HTTPException(answer.status_code, answer.text)),
          slept |-> <<>>]

\* The try body of _send_request.  answer: what client.post does.
_send_request_try(answer, names) ==
    IF answer.kind = "ConnectError"
    THEN [res |-> Raised([cls |-> "ConnectError", msg |-> answer.text]), slept |-> <<>>]
    ELSE IF answer.status_code = 200
    THEN IF answer.body.kind = "invalid"
         THEN [res |-> Raised([cls |-> "JSONDecodeError",
                               msg |-> <<"Expecting value: line 1 column 1 (char 0)">>]),
               slept |-> <<>>]
         ELSE IF answer.body.kind # "object"
         THEN [res |-> Raised([cls |-> "AttributeError",
                               msg |-> <<"object has no attribute 'get'">>]),
               slept |-> <<>>]
         ELSE [res |-> Returned(parse_result(answer.body, names)), slept |-> <<>>]
    ELSE IF answer.status_code = 429
    THEN [res |-> Raised(HTTPException(429, <<"AI service rate limit exceeded.">>)),
          slept |-> <<Sleep("time.sleep", Pow(backoff_factor, 2))>>]
    ELSE [res |-> Raised(HTTPException(answer.status_code, answer.text)),
          slept |-> <<>>]

\* Variant: the last except clause logs the error and falls off the end of
\* the function, which returns None.
_send_request_except_swallowing(t) ==
    IF t.res.ok THEN t
    ELSE IF IsInstance(t.res.exc, "RequestException")
    THEN [res |-> Raised(HTTPException(502,
                     <<"Failed to communicate with the AI service: ">> \o Str(t.res.exc))),
          slept |-> t.slept \o <<Sleep("time.sleep", Pow(backoff_factor, 2))>>]
    ELSE IF IsInstance(t.res.exc, "JSONDecodeError")
    THEN [res |-> Raised(HTTPException(500,
                     <<"Invalid response format from AI service: ">> \o Str(t.res.exc))),
          slept |-> t.slept]
    ELSE [res |-> Returned(None), slept |-> t.slept]

\* The except clauses of _send_request, applied to the outcome t of its try body.
_send_request_except(t) ==
    IF t.res.ok THEN t
    ELSE IF IsInstance(t.res.exc, "RequestException")
    THEN [res |-> Raised(HTTPException(502,
                     <<"Failed to communicate with the AI service: ">> \o Str(t.res.exc))),
          slept |-> t.slept \o <<Sleep("time.sleep", Pow(backoff_factor, 2))>>]
    ELSE IF IsInstance(t.res.exc, "JSONDecodeError")
    THEN [res |-> Raised(HTTPException(500,
                     <<"Invalid response format from AI service: ">> \o Str(t.res.exc))),
          slept |-> t.slept]
    ELSE IF IsInstance(t.res.exc, "Exception")
    THEN [res |-> Raised(HTTPException(500,
                     <<"Error analyzing code: ">> \o Str(t.res.exc))),
          slept |-> t.slept]
    ELSE t

_send_request(answer, names) == _send_request_except(_send_request_try(answer, names))

\* Variant: an HTTPException that is not retried is logged and the loop goes
\* on instead of raising it.
start_body_swallowing(attempt, result, r) ==
    IF r.res.ok
    THEN [ctl |-> IF Truthy(r.res.value) THEN "break" ELSE "next",
          result |-> r.res.value, exc |-> None, slept |-> r.slept]
    ELSE IF IsInstance(r.res.exc, "HTTPException")
    THEN IF r.res.exc.status_code = 429 /\ attempt < retries - 1
         THEN [ctl |-> "next", result |-> result, exc |-> None,
               slept |-> r.slept
                         \o <<Sleep("asyncio.sleep", Pow(backoff_factor, attempt))>>]
         ELSE [ctl |-> "next", result |-> result, exc |-> None,
               slept |-> r.slept]
    ELSE [ctl |-> "raise", result |-> result, exc |-> r.res.exc, slept |-> r.slept]

\* The body of the for loop of CodeAnalyzer.start after _send_request ended
\* with outcome r, at loop index attempt with local variable result.  ctl
\* says how the iteration leaves the loop body: "break", "raise", or "next"
\* (go on with the next index, if any).
start_body(attempt, result, r) ==
    IF r.res.ok
    THEN [ctl |-> IF Truthy(r.res.value) THEN "break" ELSE "next",
          result |-> r.res.value, exc |-> None, slept |-> r.slept]
    ELSE IF IsInstance(r.res.exc, "HTTPException")
    THEN IF r.res.exc.status_code = 429 /\ attempt < retries - 1
         THEN [ctl |-> "next", result |-> result, exc |-> None,
               slept |-> r.slept
                         \o <<Sleep("asyncio.sleep", Pow(backoff_factor, attempt))>>]
         ELSE [ctl |-> "raise", result |-> result, exc |-> r.res.exc,
               slept |-> r.slept]
    ELSE [ctl |-> "raise", result |-> result, exc |-> r.res.exc, slept |-> r.slept]

(***************************************************************************)
(* The /review boundary (review_code).                                     *)
(***************************************************************************)
NoResponse == [status_code |-> 0, detail |-> <<>>, review |-> None]

ErrorResponse(http_exc) ==
    [status_code |-> http_exc.status_code, detail |-> http_exc.detail, review |-> None]

\* return {"review": review}
OkResponse(review) == [status_code |-> 200, detail |-> <<>>, review |-> review]

\* Variant: the generic clause comes before the ValueError clause.
review_code_except_generic_first(e) ==
    IF IsInstance(e, "HTTPException") THEN e
    ELSE IF IsInstance(e, "Exception")
    THEN HTTPException(500, <<"Internal server error: ">> \o Str(e))
    ELSE e

\* The except clauses of review_code: what leaves the function.  An exception
\* that is no Exception passes every clause and leaves unchanged.
review_code_except(e) ==
    IF IsInstance(e, "HTTPException") THEN e
    ELSE IF IsInstance(e, "ValueError")
    THEN HTTPException(400, <<"Invalid input: ">> \o Str(e) \o <<".">>)
    ELSE IF IsInstance(e, "Exception")
    THEN HTTPException(500, <<"Internal server error: ">> \o Str(e))
    ELSE e

(***************************************************************************)
(* State of one /review request.                                           *)
(***************************************************************************)
VARIABLES
    request,     \* the request body
    pc,          \* where review_code stands
    repo,        \* the repository tree GitHub serves (set by get_repo)
    files,       \* _process_files: the work queue
    all_files,   \* _process_files: the result list
    disk,        \* files written under /tmp: set of [path, data]
    gh_log,      \* history: GitHub calls made, [call, path, raised]
    fetched,     \* history: the lists fetch_repo_contents returned, in order
    file_names,  \* CodeAnalyzer.file_names
    attempt,     \* CodeAnalyzer.start: loop index
    result,      \* CodeAnalyzer.start: local variable result
    ai_log,      \* history: answers of the AI service, in call order
    sleeps,      \* history: sleeps performed, [fn, secs]
    escaped,     \* history: the exception that reached review_code's except clauses
    response     \* the HTTP response of /review

vars == <<request, pc, repo, files, all_files, disk, gh_log, fetched, file_names,
          attempt, result, ai_log, sleeps, escaped, response>>

fetcher_vars == <<repo, files, all_files, disk, gh_log>>
analyzer_vars == <<file_names, attempt, result, ai_log, sleeps>>

Init ==
    /\ request \in Requests
    /\ pc = "received"
    /\ repo = <<>>
    /\ files = <<>>
    /\ all_files = <<>>
    /\ disk = {}
    /\ gh_log = <<>>
    /\ fetched = <<>>
    /\ file_names = <<>>
    /\ attempt = 0
    /\ result = None
    /\ ai_log = <<>>
    /\ sleeps = <<>>
    /\ escaped = None
    /\ response = NoResponse

\* GitHub has no repository with an empty full name.
HasRepository(full_name) == full_name # <<>>

GhCall(call, path, answer) ==
    [call |-> call, path |-> path,
     raised |-> IF answer = None THEN "" ELSE answer.cls]

\* An exception reaches the except clauses of review_code.  FastAPI answers
\* the HTTPException that leaves the function; what is no Exception leaves
\* it unchanged and no response is built.
Fail(e) ==
    /\ escaped' = e
    /\ \E out \in {review_code_except(e)} :
          response' = IF IsInstance(out, "HTTPException")
                      THEN ErrorResponse(out) ELSE NoResponse
    /\ pc' = "done"

\* FastAPI validates the body against ReviewRequest before review_code runs.
ValidateRequest ==
    /\ pc = "received"
    /\ IF ReviewRequestValid(request)
       THEN /\ pc' = "get_repository"
            /\ UNCHANGED response
       ELSE /\ pc' = "done"
            /\ response' = [status_code |-> 422, detail |-> <<"validation error">>,
                            review |-> None]
    /\ UNCHANGED <<request, fetcher_vars, fetched, analyzer_vars, escaped>>

\* fetch_repo_contents: _extract_repo_name and _get_repository.
GetRepository ==
    /\ pc = "get_repository"
    /\ \E repo_name \in {_extract_repo_name(request.github_repo_url)} :
         IF ~repo_name.ok
         THEN /\ Fail(repo_name.exc)
              /\ UNCHANGED <<repo, gh_log>>
         ELSE \E answer \in GhAnswers, tree \in Trees :
                \E r \in {_get_repository(answer, tree)} :
                    /\ HasRepository(repo_name.value) \/ answer # None
                    /\ gh_log' = Append(gh_log,
                                        GhCall("get_repo", repo_name.value, answer))
                    /\ IF r.ok
                       THEN /\ repo' = r.value
                            /\ pc' = "get_repo_files"
                            /\ UNCHANGED <<escaped, response>>
                       ELSE /\ Fail(r.exc)
                            /\ UNCHANGED repo
    /\ UNCHANGED <<request, files, all_files, disk, fetched, analyzer_vars>>

\* fetch_repo_contents: _get_repo_files.
GetRepoFiles ==
    /\ pc = "get_repo_files"
    /\ \E answer \in GhAnswers :
         \E r \in {_get_repo_files(answer, repo)} :
             /\ gh_log' = Append(gh_log, GhCall("get_contents", <<>>, answer))
             /\ IF r.ok
                THEN /\ files' = r.value
                     /\ pc' = "process_files"
                     /\ UNCHANGED <<escaped, response>>
                ELSE /\ Fail(r.exc)
                     /\ UNCHANGED files
    /\ UNCHANGED <<request, repo, all_files, disk, fetched, analyzer_vars>>

\* What the file system can do while file_content is processed: it is used
\* only for a file larger than MAX_CONTENT_SIZE, and makedirs only for the
\* directories above that file.
IoOutcomesFor(file_content) ==
    IF file_content.type # "dir" /\ file_content.size > MAX_CONTENT_SIZE
    THEN { io \in IoOutcomes :
             io.fails = "makedirs" => io.depth < Len(file_content.path) }
    ELSE { IoOutcome("", 0, 0) }

\* _process_files: one iteration of the while loop.
ProcessFile ==
    /\ pc = "process_files"
    /\ files # <<>>
    /\ \E answer \in GhAnswers, io \in IoOutcomesFor(Head(files)) :
         \E s \in {_process_files_step(repo, files, all_files, disk, answer, io)} :
             /\ files' = s.files
             /\ all_files' = s.all_files
             /\ disk' = s.disk
             /\ gh_log' = IF Head(files).type = "dir"
                          THEN Append(gh_log, GhCall("get_contents", Head(files).path, answer))
                          ELSE gh_log
             /\ IF s.exc = None
                THEN UNCHANGED <<pc, escaped, response>>
                ELSE Fail(s.exc)
    /\ UNCHANGED <<request, repo, fetched, analyzer_vars>>

\* _process_files returns; review_code constructs the CodeAnalyzer.
ConstructAnalyzer ==
    /\ pc = "process_files"
    /\ files = <<>>
    /\ fetched' = Append(fetched, all_files)
    /\ file_names' = [i \in 1..Len(all_files) |-> all_files[i].name]
    /\ pc' = "start"
    /\ UNCHANGED <<request, fetcher_vars, attempt, result, ai_log, sleeps,
                   escaped, response>>

\* CodeAnalyzer.start enters its next loop iteration: _send_request opens
\* the client and is suspended in `await client.post(...)`.
ClientPost ==
    /\ pc = "start"
    /\ attempt < retries
    /\ pc' = "post"
    /\ UNCHANGED <<request, fetcher_vars, fetched, analyzer_vars, escaped, response>>

\* The answer of the AI service arrives: the rest of the try body of
\* _send_request and its except clauses run (time.sleep included), then the
\* coroutine is suspended in the client's close at the end of `async with`.
ClientAnswer ==
    /\ pc = "post"
    /\ \E answer \in AIAnswers :
         \E r \in {_send_request(answer, file_names)} :
             /\ ai_log' = Append(ai_log, answer)
             /\ sleeps' = sleeps \o r.slept
    /\ pc' = "aclose"
    /\ UNCHANGED <<request, fetcher_vars, fetched, file_names, attempt, result,
                   escaped, response>>

\* The event loop resumes start(): after the client was closed, the outcome
\* of _send_request reaches the loop body of start, which breaks, raises,
\* goes on or suspends in asyncio.sleep; after that sleep, the loop goes on.
\* When the loop ends, start returns to review_code, which answers.
StartResume ==
    /\ pc \in {"aclose", "backoff"}
    /\ IF pc = "backoff"
       THEN /\ attempt' = attempt + 1
            /\ pc' = "start"
            /\ UNCHANGED <<result, sleeps, escaped, response>>
       ELSE \E r \in {_send_request(ai_log[Len(ai_log)], file_names)} :
              \E it \in {start_body(attempt, result, r)} :
                /\ result' = it.result
                /\ sleeps' = sleeps \o SubSeq(it.slept, Len(r.slept) + 1, Len(it.slept))
                /\ IF it.ctl = "raise"
                   THEN /\ Fail(it.exc)
                        /\ UNCHANGED attempt
                   ELSE IF it.ctl = "break"
                   THEN /\ response' = OkResponse(it.result)
                        /\ pc' = "done"
                        /\ UNCHANGED <<attempt, escaped>>
                   ELSE IF Len(it.slept) > Len(r.slept)
                   THEN /\ pc' = "backoff"
                        /\ UNCHANGED <<attempt, escaped, response>>
                   ELSE IF attempt + 1 = retries
                   THEN /\ response' = OkResponse(it.result)
                        /\ pc' = "done"
                        /\ UNCHANGED <<attempt, escaped>>
                   ELSE /\ attempt' = attempt + 1
                        /\ pc' = "start"
                        /\ UNCHANGED <<escaped, response>>
    /\ UNCHANGED <<request, fetcher_vars, fetched, file_names, ai_log>>

Next ==
    \/ ValidateRequest
    \/ GetRepository
    \/ GetRepoFiles
    \/ ProcessFile
    \/ ConstructAnalyzer
    \/ ClientPost
    \/ ClientAnswer
    \/ StartResume

Spec == Init /\ [][Next]_vars

(***************************************************************************)
(* Vocabulary of the properties.                                           *)
(***************************************************************************)
IsRateLimited(answer) == answer.kind = "response" /\ answer.status_code = 429

IsGoodPayload(answer) ==
    answer.kind = "response" /\ answer.status_code = 200 /\ answer.body.kind = "object"

\* The fetch stage has returned its list to review_code.
\* CodeAnalyzer.start is running or suspended.
InStart == pc \in {"start", "post", "aclose", "backoff"}

FetchReturned == InStart \/ (pc = "done" /\ ai_log # <<>>)

Paths(infos) == [k \in 1..Len(infos) |-> infos[k].path]

NonDirs(t) == { i \in 1..Len(t) : t[i].type # "dir" }

AsyncSleeps == SelectSeq(sleeps, LAMBDA sl : sl.fn = "asyncio.sleep")

(***************************************************************************)
(* C1: if the AI service answers k < 3 times 429 and then 200 with a       *)
(* well-formed payload, start() makes k+1 calls, performs exactly k        *)
(* backoff sleeps and the request succeeds with the parse of that payload; *)
(* in particular after k >= 1 leading 429 answers (k < 3) the operation is *)
(* still attempting.                                                       *)
(***************************************************************************)
C1_RetryThenSucceed ==
    \A k \in 0..(retries - 1) :
      /\ ( /\ k >= 1
           /\ Len(ai_log) = k
           /\ \A i \in 1..k : IsRateLimited(ai_log[i]) )
         => /\ InStart
            /\ pc = "start" => (attempt = k /\ Len(sleeps) = k)
      /\ ( /\ pc = "done"
           /\ Len(ai_log) = k + 1
           /\ \A i \in 1..k : IsRateLimited(ai_log[i])
           /\ IsGoodPayload(ai_log[k + 1]) )
         => ( /\ response = OkResponse(parse_result(ai_log[k + 1].body, file_names))
              /\ Len(sleeps) = k )

(***************************************************************************)
(* C2: if the AI service answers 429 to every call, the review makes       *)
(* exactly retries = 3 attempts and the request then fails with status     *)
(* 429.                                                                    *)
(***************************************************************************)
C2_ExhaustedRetries ==
    ( /\ pc = "done"
      /\ ai_log # <<>>
      /\ \A i \in 1..Len(ai_log) : IsRateLimited(ai_log[i]) )
    => (Len(ai_log) = retries /\ response.status_code = 429)

(***************************************************************************)
(* C3: when the fetch returns, its list holds exactly one FileInfo for     *)
(* every non-directory entry of the repository tree, and at no time holds  *)
(* an entry whose type is "dir".                                           *)
(***************************************************************************)
C3_ExactlyTheLeaves ==
    /\ \A k \in 1..Len(all_files) :
         \E i \in NonDirs(repo) :
            all_files[k].path = PathOf(repo, i) /\ all_files[k].name = repo[i].name
    /\ FetchReturned =>
         /\ \A i \in NonDirs(repo) :
              Cardinality({ k \in 1..Len(all_files) :
                              all_files[k].path = PathOf(repo, i) }) = 1
         /\ Len(all_files) = Cardinality(NonDirs(repo))

\* A fetch returned a tree with a directory that holds a file, next to
\* another file.
C3_Witness ==
    /\ FetchReturned
    /\ Len(all_files) >= 2
    /\ \E i \in NonDirs(repo) : repo[i].parent # 0

(***************************************************************************)
(* C4: the result is in FIFO discovery order: level by level, the files of *)
(* the root listing first, then the files of the listings of the root's    *)
(* directories in the order those directories were listed, and so on; so   *)
(* every root-level file precedes every file inside a directory.  (The     *)
(* witness shows a result that differs from depth-first order.)            *)
(***************************************************************************)
RECURSIVE ConcatListings(_, _)
ConcatListings(t, entries) ==
    IF entries = <<>> THEN <<>>
    ELSE IF Head(entries).type = "dir"
         THEN get_contents(t, Head(entries).path) \o ConcatListings(t, Tail(entries))
         ELSE ConcatListings(t, Tail(entries))

RECURSIVE LevelOrder(_, _)
LevelOrder(t, level) ==
    IF level = <<>> THEN <<>>
    ELSE SelectSeq(level, LAMBDA e : e.type # "dir")
         \o LevelOrder(t, ConcatListings(t, level))

RECURSIVE DepthFirst(_, _)
DepthFirst(t, entries) ==
    IF entries = <<>> THEN <<>>
    ELSE (IF Head(entries).type = "dir"
          THEN DepthFirst(t, get_contents(t, Head(entries).path))
          ELSE <<Head(entries)>>)
         \o DepthFirst(t, Tail(entries))

C4_FifoOrder ==
    FetchReturned =>
      /\ Paths(all_files) = Paths(LevelOrder(repo, get_contents(repo, <<>>)))
      /\ \A j, k \in 1..Len(all_files) :
           (Len(all_files[j].path) = 1 /\ Len(all_files[k].path) > 1) => j < k

C4_Witness ==
    /\ FetchReturned
    /\ Paths(all_files) # Paths(DepthFirst(repo, get_contents(repo, <<>>)))

(***************************************************************************)
(* C5: every FileInfo of a file larger than 1 MiB holds the message naming *)
(* the path under /tmp it was saved to, and the bytes are on disk there;   *)
(* every FileInfo of a file of at most 1 MiB (1048576 included) holds the  *)
(* decoded text, and nothing is written to disk for such a file.           *)
(***************************************************************************)
C5_SpillThreshold ==
    /\ \A k \in 1..Len(all_files) :
         \E i \in NonDirs(repo) :
            /\ PathOf(repo, i) = all_files[k].path
            /\ IF repo[i].size > 1048576
               THEN /\ all_files[k].content.kind = "File content saved to "
                    /\ all_files[k].content.path = <<"/tmp">> \o PathOf(repo, i)
                    /\ [path |-> <<"/tmp">> \o PathOf(repo, i),
                        data |-> repo[i].decoded_content] \in disk
               ELSE /\ all_files[k].content.kind = "text"
                    /\ Utf8Decode(repo[i].decoded_content).ok
                    /\ all_files[k].content.text = Utf8Decode(repo[i].decoded_content).text
    /\ \A f \in disk :
         \E i \in NonDirs(repo) :
            repo[i].size > 1048576 /\ f.path = <<"/tmp">> \o PathOf(repo, i)

\* A file of exactly 1 MiB was embedded and a file one byte larger was spilled.
C5_Witness ==
    /\ \E k \in 1..Len(all_files) :
         /\ all_files[k].content.kind = "text"
         /\ \E i \in NonDirs(repo) :
              PathOf(repo, i) = all_files[k].path /\ repo[i].size = 1048576
    /\ \E k \in 1..Len(all_files) : all_files[k].content.kind = "File content saved to "
    /\ disk # {}

(***************************************************************************)
(* C6: when GitHub reports that the repository does not exist, the request *)
(* ends with status 404 and the detail built by _get_repository, and the   *)
(* AI service is never called.                                             *)
(***************************************************************************)
RepositoryNotFound ==
    gh_log # <<>> /\ gh_log[1].call = "get_repo"
                  /\ gh_log[1].raised = "UnknownObjectException"

C6_NotFoundBeforeReview ==
    RepositoryNotFound =>
      /\ pc = "done"
      /\ response.status_code = 404
      /\ response.detail = <<"Repository not found: ", "404 ", "Not Found">>
      /\ response.review = None
      /\ ai_log = <<>>
      /\ Len(gh_log) = 1

C6_Witness == RepositoryNotFound /\ pc = "done" /\ escaped # None

(***************************************************************************)
(* C7: whenever a GitHub call of the fetch (get_repo, the root listing, or *)
(* the listing of a directory) reports that the rate limit is exceeded,    *)
(* the request fails with status 429.                                      *)
(***************************************************************************)
C7_QuotaAlwaysRateLimited ==
    (\E i \in 1..Len(gh_log) : gh_log[i].raised = "RateLimitExceededException")
    => (pc = "done" /\ response.status_code = 429)

(***************************************************************************)
(* C8 as stated: a request whose description is empty, all whitespace or   *)
(* longer than 1000 characters, whose URL is empty or does not start with  *)
(* "https://github.com/", or whose level is not Junior, Middle or Senior   *)
(* is answered 422, and neither GitHub nor the AI service is called.       *)
(***************************************************************************)
BadDescription(d) ==
    \/ StrLen(d) = 0
    \/ \A i \in 1..Len(d) : IsSpace(d[i].ch)
    \/ StrLen(d) > 1000

\* "https://github.com/"
GithubPrefix ==
    <<104, 116, 116, 112, 115, 58, 47, 47,
      103, 105, 116, 104, 117, 98, 46, 99, 111, 109, 47>>

ViolatesInputContract(r) ==
    \/ BadDescription(r.assignment_description)
    \/ r.github_repo_url = <<>>
    \/ SubSeq(r.github_repo_url, 1, Len(GithubPrefix)) # GithubPrefix
    \/ r.candidate_level \notin {"Junior", "Middle", "Senior"}

Rejected ==
    /\ pc = "done"
    /\ response.status_code = 422
    /\ response.review = None
    /\ gh_log = <<>>
    /\ ai_log = <<>>

C8_AsStated ==
    (ViolatesInputContract(request) /\ pc # "received") => Rejected

\* What the WHATWG URL standard, which pydantic's HttpUrl follows, gives for
\* the posted URLs, written out by hand: the string form of each URL that
\* is an HttpUrl.  The posted URLs without an entry are no HttpUrl: "" (empty
\* input), "github.com/example/repo" (no scheme),
\* "https://1.2.3.4.5/example/repo" (an IPv4 address of five parts) and
\* "https://git hub.com/example/repo" (a space in the host).
ExpectedStr ==
    PlainUrl :> PlainUrl
    \* "https://github.com/example/my%20r%C3%A9po"
    @@ UnnormalisedUrl :>
         <<104, 116, 116, 112, 115, 58, 47, 47, 103, 105, 116, 104, 117, 98,
           46, 99, 111, 109, 47, 101, 120, 97, 109, 112, 108, 101, 47, 109,
           121, 37, 50, 48, 114, 37, 67, 51, 37, 65, 57, 112, 111>>
    \* "https://invalid-url" gives "https://invalid-url/"
    @@
       <<104, 116, 116, 112, 115, 58, 47, 47, 105, 110, 118, 97, 108, 105,
         100, 45, 117, 114, 108>> :>
         <<104, 116, 116, 112, 115, 58, 47, 47, 105, 110, 118, 97, 108, 105,
           100, 45, 117, 114, 108, 47>>
    \* "http://github.com/example/repo" gives "http://github.com/example/repo"
    @@
       <<104, 116, 116, 112, 58, 47, 47, 103, 105, 116, 104, 117, 98, 46, 99,
         111, 109, 47, 101, 120, 97, 109, 112, 108, 101, 47, 114, 101, 112,
         111>> :>
         <<104, 116, 116, 112, 58, 47, 47, 103, 105, 116, 104, 117, 98, 46,
           99, 111, 109, 47, 101, 120, 97, 109, 112, 108, 101, 47, 114, 101,
           112, 111>>
    \* "https://github.com.evil.io/example/repo" gives "https://github.com.evil.io/example/repo"
    @@
       <<104, 116, 116, 112, 115, 58, 47, 47, 103, 105, 116, 104, 117, 98,
         46, 99, 111, 109, 46, 101, 118, 105, 108, 46, 105, 111, 47, 101,
         120, 97, 109, 112, 108, 101, 47, 114, 101, 112, 111>> :>
         <<104, 116, 116, 112, 115, 58, 47, 47, 103, 105, 116, 104, 117, 98,
           46, 99, 111, 109, 46, 101, 118, 105, 108, 46, 105, 111, 47, 101,
           120, 97, 109, 112, 108, 101, 47, 114, 101, 112, 111>>
    \* "https://0x7f.1/example/repo" gives "https://127.0.0.1/example/repo"
    @@
       <<104, 116, 116, 112, 115, 58, 47, 47, 48, 120, 55, 102, 46, 49, 47,
         101, 120, 97, 109, 112, 108, 101, 47, 114, 101, 112, 111>> :>
         <<104, 116, 116, 112, 115, 58, 47, 47, 49, 50, 55, 46, 48, 46, 48,
           46, 49, 47, 101, 120, 97, 109, 112, 108, 101, 47, 114, 101, 112,
           111>>
    \* "https://user@github.com/example/repo" gives "https://user@github.com/example/repo"
    @@
       <<104, 116, 116, 112, 115, 58, 47, 47, 117, 115, 101, 114, 64, 103,
         105, 116, 104, 117, 98, 46, 99, 111, 109, 47, 101, 120, 97, 109,
         112, 108, 101, 47, 114, 101, 112, 111>> :>
         <<104, 116, 116, 112, 115, 58, 47, 47, 117, 115, 101, 114, 64, 103,
           105, 116, 104, 117, 98, 46, 99, 111, 109, 47, 101, 120, 97, 109,
           112, 108, 101, 47, 114, 101, 112, 111>>
    \* "https://github.com/github.com/x" gives "https://github.com/github.com/x"
    @@
       <<104, 116, 116, 112, 115, 58, 47, 47, 103, 105, 116, 104, 117, 98,
         46, 99, 111, 109, 47, 103, 105, 116, 104, 117, 98, 46, 99, 111, 109,
         47, 120>> :>
         <<104, 116, 116, 112, 115, 58, 47, 47, 103, 105, 116, 104, 117, 98,
           46, 99, 111, 109, 47, 103, 105, 116, 104, 117, 98, 46, 99, 111,
           109, 47, 120>>

(***************************************************************************)
(* C8: a request whose description is empty, all whitespace or longer than *)
(* 1000 characters, whose URL pydantic's HttpUrl does not accept or has a  *)
(* string form str(HttpUrl) that does not start with                       *)
(* "https://github.com/", or whose level is not Junior, Middle or Senior   *)
(* is answered 422, and neither GitHub nor the AI service is called.       *)
(***************************************************************************)
ViolatesParsedContract(r) ==
    \/ BadDescription(r.assignment_description)
    \/ r.github_repo_url \notin DOMAIN ExpectedStr
    \/ SubSeq(ExpectedStr[r.github_repo_url], 1, Len(GithubPrefix)) # GithubPrefix
    \/ r.candidate_level \notin {"Junior", "Middle", "Senior"}

C8_InvalidInputRejected ==
    (ViolatesParsedContract(request) /\ pc # "received") => Rejected

\* A URL that is an HttpUrl with another string form, all else valid, was
\* rejected.
C8_Witness ==
    /\ Rejected
    /\ request.github_repo_url \in DOMAIN ExpectedStr
    /\ SubSeq(ExpectedStr[request.github_repo_url], 1, Len(GithubPrefix))
         # GithubPrefix
    /\ ~BadDescription(request.assignment_description)
    /\ request.candidate_level = "Junior"

(***************************************************************************)
(* C9: an exception that leaves the try block of review_code is answered   *)
(* as follows: an HTTPException with its own status and detail; a          *)
(* ValueError with message m with status 400 and detail "Invalid input:    *)
(* m."; any other exception with message m with status 500 and detail      *)
(* "Internal server error: m".                                             *)
(***************************************************************************)
C9_BoundaryMapping ==
    escaped # None =>
      /\ pc = "done"
      /\ response.review = None
      /\ IF escaped.cls = "HTTPException"
         THEN /\ response.status_code = escaped.status_code
              /\ response.detail = escaped.detail
         ELSE IF escaped.cls \in {"ValueError", "UnicodeDecodeError", "JSONDecodeError"}
         THEN /\ response.status_code = 400
              /\ response.detail = <<"Invalid input: ">> \o escaped.msg \o <<".">>
         ELSE /\ response.status_code = 500
              /\ response.detail = <<"Internal server error: ">> \o escaped.msg

\* A ValueError (the decode error of a file) reached the boundary.
C9_Witness ==
    /\ escaped # None
    /\ escaped.cls = "UnicodeDecodeError"
    /\ response.status_code = 400

(***************************************************************************)
(* C10: a finished request carries either status 200 with a review that    *)
(* has all of "Found files", "Downsides/Comments", "Rating" and            *)
(* "Conclusion", or an error status and no review; start() never hands     *)
(* None or a partial result to review_code.                                *)
(***************************************************************************)
IsFullReview(r) ==
    /\ r # None
    /\ DOMAIN r = {"Found files", "Downsides/Comments", "Rating", "Conclusion"}

C10_FullResultOrError ==
    /\ pc = "done" =>
         \/ response.status_code = 200 /\ IsFullReview(response.review)
         \/ response.status_code >= 400 /\ response.review = None
    /\ pc = "done" => response # NoResponse
    /\ (InStart /\ result # None) => IsFullReview(result)

\* A request succeeded on a payload that carries no generated text.
C10_Witness ==
    /\ pc = "done"
    /\ response.status_code = 200
    /\ ai_log # <<>>
    /\ ~ ai_log[Len(ai_log)].body.has_openai

(***************************************************************************)
(* CodeAnalyzer.parse_result on its own: the payload of a 200 answer is    *)
(* drawn from a set of documents, and parse_result is applied to it.       *)
(***************************************************************************)
TextAlphabet ==
    {"#", "*", "-", ":", " ", "\n", "\r", "Rating", "Conclusion", "ok", "s"}

RECURSIVE TextsOfLen(_)
TextsOfLen(n) ==
    IF n = 0 THEN {<<>>}
    ELSE { Append(t, tok) : t \in TextsOfLen(n - 1), tok \in TextAlphabet }

ShortTexts == UNION { TextsOfLen(n) : n \in 0..MaxTextLen }

\* The forms in which a section heading is accepted.
HeadingForms(name) ==
    { <<"#", "#", " ", name>>,
      <<"#", "#", "#", " ", name, ":">>,
      <<"*", "*", name, ":">>,
      <<"*", "*", name, "*", "*">>,
      <<"*", "*", name, ":", "*", "*">>,
      <<"-", " ", name, ":">> }

SectionContents ==
    { <<>>,
      <<" ", "8/10">>,
      <<"\n", "Good", " ", "work">>,
      <<" ", "a", "-", "b", " ">> }

Leads == { <<>>, <<"Intro", "\n">> }

\* lead, Rating heading, content, newline, Conclusion heading, content
ReviewText(lead, h1, c1, h2, c2) == lead \o h1 \o c1 \o <<"\n">> \o h2 \o c2

StructuredTexts ==
    { ReviewText(x[1], x[2], x[3], x[4], x[5]) :
        x \in Leads \X (HeadingForms("Rating") \cup {<<"Rating", ":">>})
                    \X SectionContents
                    \X (HeadingForms("Conclusion") \cup {<<"Conclusion", ":">>})
                    \X SectionContents }

ParseBodies ==
    { JsonObject(TRUE, TRUE, t) : t \in ShortTexts \cup StructuredTexts \cup GeneratedTexts }
    \cup { JsonObject(FALSE, FALSE, <<>>), JsonObject(TRUE, FALSE, <<>>) }

ParseInit ==
    /\ request = PlainRequest
    /\ pc = "parse"
    /\ repo = <<>>
    /\ files = <<>>
    /\ all_files = <<>>
    /\ disk = {}
    /\ gh_log = <<>>
    /\ fetched = <<>>
    /\ file_names = <<"test.py">>
    /\ attempt = 0
    /\ result = None
    /\ ai_log \in { <<HttpResponse(200, b, <<>>)>> : b \in ParseBodies }
    /\ sleeps = <<>>
    /\ escaped = None
    /\ response = NoResponse

\* _send_request on a 200 answer with a JSON object: parse_result.
ParseResult ==
    /\ pc = "parse"
    /\ result' = parse_result(ai_log[1].body, file_names)
    /\ pc' = "parsed"
    /\ UNCHANGED <<request, fetcher_vars, fetched, file_names, attempt, ai_log,
                   sleeps, escaped, response>>

ParseSpec == ParseInit /\ [][ParseResult]_vars

\* The text parse_result works on.
ParsedText ==
    IF ai_log[1].body.has_openai /\ ai_log[1].body.has_text
    THEN ai_log[1].body.generated_text
    ELSE <<"No", " ", "suggestion", " ", "available">>

\* The text has a heading for the section: the name right after "**", or
\* after "##" or "-" and any whitespace.
HasHeading(text, name) ==
    \E i \in 1..Len(text) :
       /\ text[i] = name
       /\ \/ i >= 3 /\ text[i - 1] = "*" /\ text[i - 2] = "*"
          \/ \E j \in 1..(i - 1) :
                /\ \A k \in (j + 1)..(i - 1) : IsWs(text[k])
                /\ \/ text[j] = "-"
                   \/ j >= 2 /\ text[j] = "#" /\ text[j - 1] = "#"

(***************************************************************************)
(* C11: in every result of parse_result, Rating and Conclusion are never   *)
(* the empty string.                                                       *)
(***************************************************************************)
C11_NeverEmpty ==
    pc = "parsed" => (result["Rating"] # <<>> /\ result["Conclusion"] # <<>>)

(***************************************************************************)
(* C12: for a text made of a Rating heading in an accepted form, its       *)
(* content, and a Conclusion heading in an accepted form with its content, *)
(* Rating and Conclusion are exactly the two contents, trimmed; the text   *)
(* "**Rating:** 8/10\n**Conclusion:** Good" yields "8/10" and "Good".      *)
(***************************************************************************)
C12_ExactSectionContent ==
    pc = "parsed" =>
      /\ \A x \in Leads \X HeadingForms("Rating") \X SectionContents
                        \X HeadingForms("Conclusion") \X SectionContents :
           ParsedText = ReviewText(x[1], x[2], x[3], x[4], x[5]) =>
             /\ result["Rating"] = StripText(x[3])
             /\ result["Conclusion"] = StripText(x[5])
      /\ ParsedText = <<"*", "*", "Rating", ":", "*", "*", " ", "8/10", "\n",
                        "*", "*", "Conclusion", ":", "*", "*", " ", "Good">> =>
             /\ result["Rating"] = <<"8/10">>
             /\ result["Conclusion"] = <<"Good">>

(***************************************************************************)
(* C13 as stated: for a text with no Conclusion heading the Conclusion is  *)
(* "no conclusion available", and likewise for Rating.                     *)
(***************************************************************************)
C13_LowerCaseSentinel ==
    pc = "parsed" =>
      /\ ~ HasHeading(ParsedText, "Conclusion") =>
           result["Conclusion"] = <<"no", " ", "conclusion", " ", "available">>
      /\ ~ HasHeading(ParsedText, "Rating") =>
           result["Rating"] = <<"no", " ", "rating", " ", "available">>

(***************************************************************************)
(* C13 amended: for a text with no Conclusion heading the Conclusion is    *)
(* "No conclusion available" (capital N, section name in lower case), and  *)
(* likewise "No rating available" for Rating; this includes a payload      *)
(* without generated text.                                                 *)
(***************************************************************************)
C13_Sentinel ==
    pc = "parsed" =>
      /\ ~ HasHeading(ParsedText, "Conclusion") =>
           result["Conclusion"] = <<"No", " ", "conclusion", " ", "available">>
      /\ ~ HasHeading(ParsedText, "Rating") =>
           result["Rating"] = <<"No", " ", "rating", " ", "available">>

\* A payload without generated text was parsed.
C13_Witness ==
    /\ pc = "parsed"
    /\ ~ ai_log[1].body.has_text
    /\ result["Conclusion"] = <<"No", " ", "conclusion", " ", "available">>

(***************************************************************************)
(* Repeated fetches: fetch_repo_contents is called again for the same,     *)
(* unchanged repository, with the disk as the earlier fetch left it.       *)
(***************************************************************************)
FetchAgain ==
    /\ pc = "start"
    /\ ai_log = <<>>
    /\ Len(fetched) < MaxFetches
    /\ \E repo_name \in {_extract_repo_name(request.github_repo_url)} :
         IF ~repo_name.ok
         THEN /\ Fail(repo_name.exc)
              /\ UNCHANGED <<files, all_files, gh_log>>
         ELSE \E answer \in GhAnswers :
                \E r \in {_get_repository(answer, repo)} :
                    /\ gh_log' = Append(gh_log,
                                        GhCall("get_repo", repo_name.value, answer))
                    /\ IF r.ok
                       THEN /\ pc' = "get_repo_files"
                            /\ files' = <<>>
                            /\ all_files' = <<>>
                            /\ UNCHANGED <<escaped, response>>
                       ELSE /\ Fail(r.exc)
                            /\ UNCHANGED <<files, all_files>>
    /\ UNCHANGED <<request, repo, disk, fetched, analyzer_vars>>

RefetchNext == Next \/ FetchAgain

RefetchSpec == Init /\ [][RefetchNext]_vars

(***************************************************************************)
(* C14: every fetch of the same unchanged repository tree returns the same *)
(* ordered FileInfo sequence as the first one, whatever the earlier        *)
(* fetches left on disk.                                                   *)
(***************************************************************************)
C14_FetchIdempotent ==
    \A i \in 1..Len(fetched) : fetched[i] = fetched[1]

\* A second fetch returned, after the first one had spilled a file to disk.
C14_Witness ==
    /\ Len(fetched) = 2
    /\ Len(fetched[2]) >= 2
    /\ \E k \in 1..Len(fetched[1]) :
          fetched[1][k].content.kind = "File content saved to "

(***************************************************************************)
(* C15: a remote outcome other than 200 or 429 (another non-2xx status, a  *)
(* 200 body that is not JSON, a connectivity failure) is the last remote   *)
(* call of the review: the request has failed right after it, without a    *)
(* retry and without any sleep for it.                                     *)
(***************************************************************************)
IsOtherFailure(answer) ==
    \/ answer.kind = "ConnectError"
    \/ /\ answer.kind = "response"
       /\ answer.status_code \notin {429} \cup (200..299)
    \/ /\ answer.kind = "response"
       /\ answer.status_code = 200
       /\ answer.body.kind = "invalid"

C15_OtherFailureEndsAtOnce ==
    /\ [](\A i \in 1..Len(ai_log) :
            IsOtherFailure(ai_log[i])
            => /\ i = Len(ai_log)
               /\ pc \in {"aclose", "done"}
               /\ pc = "done" => (response.status_code >= 400 /\ response.review = None)
               /\ i = 1 => sleeps = <<>>)
    /\ [][(pc = "aclose" /\ IsOtherFailure(ai_log[Len(ai_log)]))
          => (pc' = "done" /\ sleeps' = sleeps /\ ai_log' = ai_log)]_vars

\* A connectivity failure on the first call has ended the request.
C15_Witness ==
    /\ pc = "done"
    /\ Len(ai_log) = 1
    /\ ai_log[1].kind = "ConnectError"
    /\ response.status_code = 500
    /\ sleeps = <<>>

(***************************************************************************)
(* C16: after k = 1 or 2 leading 429 answers, once the delay for the last  *)
(* of them is over, the delays taken so far are exactly backoff_factor^0,  *)
(* ..., backoff_factor^(k-1) seconds (1, then 2), one per 429, and no      *)
(* other sleep was made.                                                   *)
(***************************************************************************)
C16_BackoffDelays ==
    \A k \in 1..(retries - 1) :
        ( /\ Len(ai_log) = k
          /\ \A i \in 1..k : IsRateLimited(ai_log[i])
          /\ pc \in {"start", "post", "done"} )
        => /\ Len(sleeps) = k
           /\ \A n \in 0..(k - 1) : sleeps[n + 1].secs = Pow(backoff_factor, n)

(***************************************************************************)
(* C17: every delay taken after a 429 answer is an awaited asyncio.sleep,  *)
(* which suspends only the coroutine of this request; none is a            *)
(* time.sleep, which holds the thread of the event loop and with it every  *)
(* other request of the process.                                           *)
(***************************************************************************)
LoopBlockedSecs(sl) ==
    IF sl.fn = "time.sleep" THEN sl.secs ELSE 0

C17_BackoffYieldsLoop ==
    (\E i \in 1..Len(ai_log) : IsRateLimited(ai_log[i]))
    => \A n \in 1..Len(sleeps) : LoopBlockedSecs(sleeps[n]) = 0

(***************************************************************************)
(* C18: the review makes at most retries = 3 remote calls and ends in      *)
(* Succeeded or Failed: whenever start() is about to make a call, fewer    *)
(* than retries calls have been made; a call is answered once; after the   *)
(* answer start() either ends the request or goes on to the next attempt,  *)
(* directly or after one backoff sleep.  Once the request has ended no     *)
(* remote call and no sleep is made.                                       *)
(***************************************************************************)
Succeeded == pc = "done" /\ response.status_code = 200 /\ response.review # None

Failed == pc = "done" /\ response.status_code >= 400 /\ response.review = None

C18_Terminates ==
    /\ [](Len(ai_log) <= retries)
    /\ [](pc \in {"start", "post"} => (attempt = Len(ai_log) /\ attempt < retries))
    /\ [](pc \in {"aclose", "backoff"} => (attempt + 1 = Len(ai_log) /\ attempt < retries))
    /\ [](pc = "done" => (Succeeded \/ Failed))
    /\ [][pc = "start" => (pc' = "post" /\ ai_log' = ai_log /\ sleeps' = sleeps)]_vars
    /\ [][pc = "post" => (pc' = "aclose" /\ Len(ai_log') = Len(ai_log) + 1)]_vars
    /\ [][pc = "aclose"
          => /\ ai_log' = ai_log
             /\ \/ pc' = "done"
                \/ pc' = "backoff" /\ attempt' = attempt
                \/ pc' = "start" /\ attempt' = attempt + 1]_vars
    /\ [][pc = "backoff"
          => (pc' = "start" /\ attempt' = attempt + 1 /\ ai_log' = ai_log)]_vars
    /\ [][pc = "done" => (ai_log' = ai_log /\ sleeps' = sleeps)]_vars
    /\ [][(ai_log' # ai_log \/ sleeps' # sleeps) => InStart]_vars

\* A review that made a remote call has ended in Succeeded.
C18_Witness ==
    /\ Succeeded
    /\ Len(ai_log) = 1
    /\ IsGoodPayload(ai_log[1])

(***************************************************************************)
(* C19: the "Found files" field of a review is the sequence of the name    *)
(* fields of the FileInfo records the fetcher returned for the request,    *)
(* in the same order and with the same multiplicity, and each of its       *)
(* entries is the name of a non-directory entry of the repository.         *)
(***************************************************************************)
C19_FoundFilesAreFetchedNames ==
    /\ InStart =>
         /\ Len(fetched) = 1
         /\ file_names = [k \in 1..Len(fetched[1]) |-> fetched[1][k].name]
    /\ (pc = "done" /\ response.status_code = 200) =>
         /\ Len(fetched) = 1
         /\ response.review["Found files"]
              = [k \in 1..Len(fetched[1]) |-> fetched[1][k].name]
         /\ \A k \in 1..Len(fetched[1]) :
              \E i \in NonDirs(repo) :
                 /\ PathOf(repo, i) = fetched[1][k].path
                 /\ repo[i].name = response.review["Found files"][k]

\* A review of a repository that holds two files of one name, one of them in
\* a directory.
C19_Witness ==
    /\ pc = "done"
    /\ response.status_code = 200
    /\ response.review["Found files"] = <<"b", "b">>
    /\ \E i \in 1..Len(repo) : repo[i].type = "dir"

(***************************************************************************)
(* C20: during the traversal every discovered entry is either popped or    *)
(* pending, exactly once: the entries of the listings made so far are      *)
(* exactly the files recorded, the directories listed and the entries      *)
(* still in the queue, without any repetition; each step pops one entry;   *)
(* the traversal returns with an empty queue, every directory listed once  *)
(* and every file resolved once, and an empty listing adds nothing.        *)
(***************************************************************************)
\* Paths of the listings that succeeded, in the order they were made.
ListedPaths ==
    LET ok == SelectSeq(gh_log, LAMBDA c : c.call = "get_contents" /\ c.raised = "")
    IN  [k \in 1..Len(ok) |-> ok[k].path]

\* Paths of the directories popped and listed (the root is listed, not popped).
PoppedDirs == SelectSeq(ListedPaths, LAMBDA p : p # <<>>)

SeqRange(sq) == { sq[k] : k \in 1..Len(sq) }

NoRepeat(sq) == Cardinality(SeqRange(sq)) = Len(sq)

Discovered ==
    UNION { SeqRange(Paths(get_contents(repo, p))) : p \in SeqRange(ListedPaths) }

TraversalInvariant ==
    /\ NoRepeat(Paths(all_files))
    /\ NoRepeat(PoppedDirs)
    /\ NoRepeat(Paths(files))
    /\ SeqRange(Paths(all_files)) \cap SeqRange(PoppedDirs) = {}
    /\ SeqRange(Paths(all_files)) \cap SeqRange(Paths(files)) = {}
    /\ SeqRange(PoppedDirs) \cap SeqRange(Paths(files)) = {}
    /\ Discovered = SeqRange(Paths(all_files)) \cup SeqRange(PoppedDirs)
                        \cup SeqRange(Paths(files))

TraversalDone ==
    /\ files = <<>>
    /\ SeqRange(PoppedDirs)
         = { PathOf(repo, i) : i \in { j \in 1..Len(repo) : repo[j].type = "dir" } }
    /\ SeqRange(Paths(all_files)) = { PathOf(repo, i) : i \in NonDirs(repo) }
    /\ Len(ListedPaths) = 1 + Len(PoppedDirs)

C20_EachEntryOnce ==
    /\ [](pc = "process_files" => TraversalInvariant)
    /\ [](FetchReturned => (TraversalInvariant /\ TraversalDone))
    /\ [][(pc = "process_files" /\ pc' = "process_files")
          => /\ files # <<>>
             /\ Len(all_files') + Len(PoppedDirs') = Len(all_files) + Len(PoppedDirs) + 1
             /\ \/ Paths(all_files') = Append(Paths(all_files), Head(files).path)
                \/ PoppedDirs' = Append(PoppedDirs, Head(files).path)]_vars

\* A fetch returned for a tree with an empty directory next to a directory
\* that holds a file.
C20_Witness ==
    /\ FetchReturned
    /\ all_files # <<>>
    /\ \E i \in 1..Len(repo) :
          repo[i].type = "dir" /\ get_contents(repo, PathOf(repo, i)) = <<>>
    /\ \E i \in NonDirs(repo) : repo[i].parent # 0

(***************************************************************************)
(* C21: a file of at most MAX_CONTENT_SIZE bytes whose bytes are not valid *)
(* UTF-8 makes the fetch fail: when _process_files pops it, the            *)
(* UnicodeDecodeError leaves the fetcher as it is (a ValueError, not an    *)
(* HTTPException), review_code answers 400 "Invalid input: ...", although  *)
(* the request had passed validation, and no call to the AI service is     *)
(* made.  A repository that holds such a file never yields a review.       *)
(***************************************************************************)
Undecodable(entry) ==
    /\ entry.type # "dir"
    /\ entry.size <= MAX_CONTENT_SIZE
    /\ ~Utf8Decode(entry.decoded_content).ok

HasUndecodable(t) == \E i \in 1..Len(t) : Undecodable(t[i])

C21_DecodeFailureIs400 ==
    /\ [](HasUndecodable(repo) => (~FetchReturned /\ ai_log = <<>>))
    /\ []((escaped # None /\ escaped.cls = "UnicodeDecodeError")
          => /\ pc = "done"
             /\ ReviewRequestValid(request)
             /\ ~IsInstance(escaped, "HTTPException")
             /\ IsInstance(escaped, "ValueError")
             /\ response.status_code = 400
             /\ response.detail = <<"Invalid input: ">> \o escaped.msg \o <<".">>
             /\ ai_log = <<>>)
    /\ [][(pc = "process_files" /\ files # <<>> /\ Undecodable(Head(files)))
          => /\ pc' = "done"
             /\ escaped'.cls = "UnicodeDecodeError"
             /\ response'.status_code = 400
             /\ ai_log' = <<>>]_vars

\* The decode failure of a file in a directory ended a valid request with
\* 400, after another file had been fetched.
C21_Witness ==
    /\ pc = "done"
    /\ escaped # None
    /\ escaped.cls = "UnicodeDecodeError"
    /\ response.status_code = 400
    /\ ReviewRequestValid(request)
    /\ all_files # <<>>
    /\ \E i \in 1..Len(repo) : Undecodable(repo[i]) /\ repo[i].parent # 0

====
